---- MODULE Spec2Model ----
(***************************************************************************)
(* Scene export / import of the scene composer.                            *)
(*                                                                         *)
(*   src/src/io/exportScene.ts   exportScene, downloadBlob                 *)
(*   src/src/io/importScene.ts   importScene, loadInitialConditions,       *)
(*                               importFromSceneJson,                      *)
(*                               importFromFolderStructure,                *)
(*                               parseUsdaTransforms, loadAssetFromZip,    *)
(*                               AssetLoader.loadFromFiles                 *)
(*   src/src/components/Toolbar.tsx   handleExport, handleImportSelect     *)
(*   src/src/hooks/useScene.ts        the scene state, addAsset            *)
(*                                                                         *)
(* Representation.                                                         *)
(*   - A name is a sequence of one-character strings, so that the regular  *)
(*     expression /[^a-zA-Z0-9_]/g can be applied character by character.  *)
(*   - A number is an integer.  An Euler angle in radians is counted in    *)
(*     units of pi/PiUnits, so that x * 180 / Math.PI is (x * 180) \div    *)
(*     PiUnits, exact in real arithmetic (floating rounding of the product *)
(*     is not modelled).                                                   *)
(*   - A number written into a text document is a NumText record (sign and *)
(*     magnitude); parseFloat reads it back.                               *)
(*   - A file path "top/dir/.../stem.ext" is [top, dirs, file]; top = <<>> *)
(*     is a path with no folder part.  An archive entry                    *)
(*     "assets/<asset>/dir/.../stem.ext" is [asset, dirs, file, dir].      *)
(*   - The orientation of an object is either the Euler triple last set    *)
(*     through object.rotation or the quaternion last set through          *)
(*     object.quaternion (three.js keeps the two views in step).           *)
(***************************************************************************)
EXTENDS Integers, Sequences, FiniteSets, TLC

(* ---------------------------------------------------------------------- *)
(* Bounds                                                                  *)
(* ---------------------------------------------------------------------- *)

\* Largest number of objects in the scene an export is run on.
MaxAssets == 2

\* Math.PI, in the model's angle unit (one unit is pi/12 rad = 15 degrees).
PiUnits == 12

(* ---------------------------------------------------------------------- *)
(* Names and sanitizing                                                    *)
(* ---------------------------------------------------------------------- *)

LowerChars ==
    {"a","b","c","d","e","f","g","h","i","j","k","l","m",
     "n","o","p","q","r","s","t","u","v","w","x","y","z"}

UpperChars ==
    {"A","B","C","D","E","F","G","H","I","J","K","L","M",
     "N","O","P","Q","R","S","T","U","V","W","X","Y","Z"}

DigitChars == {"0","1","2","3","4","5","6","7","8","9"}

\* name.replace(/[^...]/g, '_') : every character outside `keep` becomes '_'.
ReplaceOutside(name, keep) ==
    [i \in DOMAIN name |-> IF name[i] \in keep THEN name[i] ELSE "_"]

\* exportScene.ts:49   asset.name.replace(/[^a-zA-Z0-9_]/g, '_')
usdNameExport(name) ==
    ReplaceOutside(name, LowerChars \cup UpperChars \cup DigitChars \cup {"_"})

\* usdNameLegacy with a pattern that also keeps the hyphen.
usdNameLegacyKeepsHyphen(name) ==
    ReplaceOutside(name, LowerChars \cup UpperChars \cup DigitChars \cup {"_", "-"})

\* importScene.ts:196  assetName.replace(/[^a-zA-Z0-9_]/g, '_')
usdNameLegacy(name) ==
    ReplaceOutside(name, LowerChars \cup UpperChars \cup DigitChars \cup {"_"})

\* importScene.ts:80   a.name.replace(/[^a-zA-Z0-9_]/g, '_')
usdNamePose(name) ==
    ReplaceOutside(name, LowerChars \cup UpperChars \cup DigitChars \cup {"_"})

NameBox   == <<"B","o","x">>
NameHash  == <<"T","#","1">>
NameUnder == <<"T","_","1">>
NameWorld == <<"W","o","r","l","d">>

\* Display names of the objects of a scene: a plain name, two names that
\* sanitize to the same identifier, and the name of the root block.
Names == {NameBox, NameHash, NameUnder, NameWorld}

(* ---------------------------------------------------------------------- *)
(* Numbers in text                                                         *)
(* ---------------------------------------------------------------------- *)

Abs(n) == IF n < 0 THEN 0 - n ELSE n

\* `${n}` in a template literal: the decimal text of a number.
NumToText(n) == [neg |-> n < 0, mag |-> Abs(n)]

\* parseFloat of a decimal text.
parseFloat(t) == IF t.neg THEN 0 - t.mag ELSE t.mag

TextTuple(v) == [i \in DOMAIN v |-> NumToText(v[i])]

(* ---------------------------------------------------------------------- *)
(* Frame conversion: live frame (Y-up) <-> export frame (Z-up)             *)
(* ---------------------------------------------------------------------- *)

\* exportScene.ts:44-46   (rot * 180) / Math.PI
RadToDeg(r) == (r * 180) \div PiUnits

\* importScene.ts:225-227  rotate * (Math.PI / 180)
DegToRad(d) == (d * PiUnits) \div 180

\* exportScene.ts:66   (${pos.x}, ${-pos.z}, ${pos.y})
ExportTranslate(pos) == <<pos[1], 0 - pos[3], pos[2]>>

\* exportScene.ts:67   (${rotDegX}, ${-rotDegZ}, ${rotDegY})
ExportRotateXYZ(rot) ==
    <<RadToDeg(rot[1]), 0 - RadToDeg(rot[3]), RadToDeg(rot[2])>>

\* exportScene.ts:68   (${scl.x}, ${scl.z}, ${scl.y})
ExportScale(scl) == <<scl[1], scl[3], scl[2]>>

\* LegacyPosition with the sign of the last component lost.
LegacyPositionSwapOnly(t) == <<t[1], t[3], t[2]>>

\* importScene.ts:203-207  position.set(translate.x, translate.z, -translate.y)
\* (a translate is <<x, y, z>>)
LegacyPosition(t) == <<t[1], t[3], 0 - t[2]>>

\* LegacyQuaternion with the sign of the z component lost.
LegacyQuaternionSwapOnly(o) == <<o[2], o[4], o[3], o[1]>>

\* importScene.ts:214-219  new THREE.Quaternion(orient.x, orient.z, -orient.y,
\* orient.w); an orient is <<w, x, y, z>>, a quaternion is <<x, y, z, w>>.
LegacyQuaternion(o) == <<o[2], o[4], 0 - o[3], o[1]>>

\* importScene.ts:224-228  rotation.set(rotate.x, rotate.z, -rotate.y), in radians
LegacyRotation(r) == <<DegToRad(r[1]), DegToRad(r[3]), 0 - DegToRad(r[2])>>

\* importScene.ts:231-235  scale.set(scale.x, scale.z, scale.y)
LegacyScale(s) == <<s[1], s[3], s[2]>>

\* importScene.ts:94   new THREE.Vector3(usdX, usdZ, -usdY)
\* A pose position read without the change of frame.
PosePositionUnturned(values) == <<values[1], values[2], values[3]>>

\* (values is <<x, y, z, qx, qy, qz, qw>>)
PosePosition(values) == <<values[1], values[3], 0 - values[2]>>

\* importScene.ts:99   new THREE.Quaternion(usdQx, usdQz, -usdQy, usdQw)
PoseQuaternion(values) == <<values[4], values[6], 0 - values[5], values[7]>>

\* The orientation an export writes, (w, x, y, z) -> (w, x, -z, y), of the
\* quaternion <<x, y, z, w>>.  exportScene.ts writes Euler angles only; the
\* mapping is the one importScene.ts:97 and :212 say the document came from.
ExportOrient(q) == <<q[4], q[1], 0 - q[3], q[2]>>

\* The pose-document entry [x, y, z, qx, qy, qz, qw] of a live pose, in the
\* export frame.  exportScene.ts writes no pose document; the entry is the
\* one importScene.ts:83-99 says it reads.
ExportPoseValues(pos, q) ==
    ExportTranslate(pos) \o <<q[1], 0 - q[3], q[2], q[4]>>

(* ---------------------------------------------------------------------- *)
(* Files, objects, archives                                                *)
(* ---------------------------------------------------------------------- *)

NoFileRec == [stem |-> "", ext |-> "", ok |-> FALSE]

\* A payload file; ok = FALSE is a file the geometry loader cannot decode.
FileUsd    == [stem |-> "model", ext |-> "usd", ok |-> TRUE]
FileGlb    == [stem |-> "mesh",  ext |-> "glb", ok |-> TRUE]
FilePng    == [stem |-> "tex",   ext |-> "png", ok |-> TRUE]
FileBadUsd == [stem |-> "model", ext |-> "usd", ok |-> FALSE]

\* File absent from an archive.
Absent == [kind |-> "absent"]

\* A file whose text JSON.parse rejects.
BadJson == [kind |-> "badjson"]

\* new JSZip() holds no entry.
NoArchive == [kind |-> "none"]

EulerOrientation(v) == [kind |-> "euler", v |-> v]
QuatOrientation(q)  == [kind |-> "quat", v |-> q]

\* object.rotation of an object whose orientation was set through
\* object.rotation.  (Reading the Euler view of an orientation that was set
\* through object.quaternion is three.js arithmetic that integers cannot
\* carry; no export of this model is run on such an object.)
rotationOf(o) == IF o.kind = "euler" THEN o.v ELSE CHOOSE e \in {} : TRUE

RECURSIVE Dedup(_)
\* The distinct elements of a sequence, in the order of their first
\* occurrence (the key order of a JS object / Set / Map filled in that order).
Dedup(s) ==
    IF s = <<>> THEN <<>>
    ELSE LET r == Dedup(SubSeq(s, 1, Len(s) - 1))
             l == s[Len(s)]
         IN  IF \E i \in DOMAIN r : r[i] = l THEN r ELSE Append(r, l)

RECURSIVE Flatten(_)
Flatten(ss) == IF ss = <<>> THEN <<>> ELSE Head(ss) \o Flatten(Tail(ss))

(* ---------------------------------------------------------------------- *)
(* exportScene.ts                                                          *)
(* ---------------------------------------------------------------------- *)

\* exportableAssets with the filter left out.
exportableAssetsUnfiltered(assetList) == assetList

\* exportScene.ts:11   assets.filter(a => !a.excludeFromExport)
exportableAssets(assetList) ==
    SelectSeq(assetList, LAMBDA a : ~a.excludeFromExport)

\* hasKinematicAsset looking at the whole list instead of the exportable one.
hasKinematicAnyAsset(assetList) ==
    \E i \in DOMAIN assetList : assetList[i].disableGravity

\* exportScene.ts:14   exportableAssets.some(a => a.disableGravity)
hasKinematicAsset(assetList) ==
    \E i \in DOMAIN exportableAssets(assetList) :
        exportableAssets(assetList)[i].disableGravity

\* exportScene.ts:33-35  def Xform "World" {
RootBlock ==
    [name |-> NameWorld, apiSchemas |-> <<>>,
     references |-> [asset |-> <<>>, file |-> NoFileRec],
     translate |-> <<>>, orient |-> <<>>, rotateXYZ |-> <<>>, scale |-> <<>>,
     xformOpOrder |-> <<>>, kinematicEnabled |-> ""]

\* exportScene.ts:52   asset.mainFile.split('/').pop() || asset.mainFile
mainFileName(asset) == asset.mainFile.file

\* exportScene.ts:38-72  the block written for one exportable object
ExportBlock(asset) ==
    [name |-> usdNameExport(asset.name),
     apiSchemas |-> <<"PhysicsRigidBodyAPI">>,
     references |-> [asset |-> asset.name, file |-> mainFileName(asset)],
     translate |-> TextTuple(ExportTranslate(asset.position)),
     orient |-> <<>>,
     rotateXYZ |-> TextTuple(ExportRotateXYZ(rotationOf(asset.orientation))),
     scale |-> TextTuple(ExportScale(asset.scale)),
     xformOpOrder |-> <<"xformOp:translate", "xformOp:rotateXYZ", "xformOp:scale">>,
     kinematicEnabled |-> IF asset.disableGravity THEN "true" ELSE "false"]

\* exportScene.ts:26-35, 87-91  the text of scene.usda
ExportUsda(assetList) ==
    [kind |-> "usda", defaultPrim |-> "World", metersPerUnit |-> 1, upAxis |-> "Z",
     blocks |-> <<RootBlock>> \o
                [i \in DOMAIN exportableAssets(assetList) |->
                    ExportBlock(exportableAssets(assetList)[i])]]

\* exportScene.ts:80   path.includes('/') ? path.split('/').slice(1).join('/') : path
\* : the path below the top-level folder, or the whole path when it has no
\* folder part; written under assets/<asset.name>/ (exportScene.ts:76, 81).
PayloadEntry(asset, path) ==
    [asset |-> asset.name, dirs |-> path.dirs, file |-> path.file, dir |-> FALSE]

\* exportScene.ts:76   assetsFolder.folder(asset.name)
FolderEntry(asset) ==
    [asset |-> asset.name, dirs |-> <<>>, file |-> NoFileRec, dir |-> TRUE]

\* exportScene.ts:74-84  the entries written for one object, in order
AssetEntries(asset) ==
    <<FolderEntry(asset)>> \o
    [k \in DOMAIN asset.files |-> PayloadEntry(asset, asset.files[k])]

\* exportScene.ts:37-85  all entries below assets/; JSZip keeps one entry per path
ExportEntries(assetList) ==
    Dedup(Flatten([i \in DOMAIN exportableAssets(assetList) |->
                      AssetEntries(exportableAssets(assetList)[i])]))

\* exportScene.ts:9-98  exportScene(assets): the result and the archive given
\* to downloadBlob (NoArchive when nothing is downloaded)
exportScene(assetList) ==
    IF ~hasKinematicAsset(assetList)
    THEN [success |-> FALSE,
          error |-> "At least one asset must have gravity disabled (kinematic) before exporting.",
          zip |-> NoArchive]
    ELSE [success |-> TRUE,
          error |-> "",
          zip |-> [kind |-> "zip",
                   sceneJson |-> Absent,
                   sceneUsda |-> ExportUsda(assetList),
                   initialConditions |-> Absent,
                   entries |-> ExportEntries(assetList)]]

(* ---------------------------------------------------------------------- *)
(* importScene.ts                                                          *)
(* ---------------------------------------------------------------------- *)

UsdExts  == {"usdz", "usd", "usda", "usdc"}
GltfExts == {"glb", "gltf"}

\* importScene.ts:414-441  the index of the main 3D file in the file map:
\* the first USD/USDZ file, else the first GLB/GLTF file, else 0
MainFileIndex(files) ==
    LET usd  == {i \in DOMAIN files : files[i].file.ext \in UsdExts}
        gltf == {i \in DOMAIN files : files[i].file.ext \in GltfExts}
        first(S) == CHOOSE i \in S : \A j \in S : i <= j
    IN  IF usd # {} THEN first(usd) ELSE IF gltf # {} THEN first(gltf) ELSE 0

\* importScene.ts:416-437  usdz | usd | glb | gltf
FileTypeOf(ext) == IF ext \in {"usd", "usda", "usdc"} THEN "usd" ELSE ext

\* importScene.ts:409-483  AssetLoader.loadFromFiles(files, folderName): <<>>
\* for null, else <<asset>> with a fresh id and the loader's transform.  The
\* folder names of this model are never empty, so name = folderName.
loadFromFiles(files, folderName, id) ==
    LET m == MainFileIndex(files)
    IN  IF m = 0 THEN <<>>
        ELSE IF ~files[m].file.ok THEN <<>>
        ELSE <<[id |-> id,
                name |-> folderName,
                position |-> <<0, 0, 0>>,
                orientation |-> EulerOrientation(<<0, 0, 0>>),
                scale |-> <<1, 1, 1>>,
                files |-> files,
                mainFile |-> files[m],
                fileType |-> FileTypeOf(files[m].file.ext),
                excludeFromExport |-> FALSE,
                locked |-> FALSE,
                disableGravity |-> FALSE]>>

\* importScene.ts:316-348  loadAssetFromZip(zip, assetName, assetLoader)
loadAssetFromZip(zip, assetName, id) ==
    LET mine  == SelectSeq(zip.entries,
                           LAMBDA e : e.asset = assetName /\ ~e.dir)
        files == [k \in DOMAIN mine |->
                    [top |-> assetName, dirs |-> mine[k].dirs, file |-> mine[k].file]]
    IN  IF files = <<>> THEN <<>> ELSE loadFromFiles(files, assetName, id)

\* importScene.ts:261-310  the transform read from one block
ParseBlock(b) ==
    [translate |-> IF b.translate # <<>>
                   THEN [i \in 1..3 |-> parseFloat(b.translate[i])]
                   ELSE <<0, 0, 0>>,
     orient    |-> IF b.orient # <<>>
                   THEN [i \in 1..4 |-> parseFloat(b.orient[i])]
                   ELSE <<>>,
     rotate    |-> IF b.rotateXYZ # <<>>
                   THEN [i \in 1..3 |-> parseFloat(b.rotateXYZ[i])]
                   ELSE <<>>,
     scale     |-> IF b.scale # <<>>
                   THEN [i \in 1..3 |-> parseFloat(b.scale[i])]
                   ELSE <<1, 1, 1>>,
     kinematic |-> b.kinematicEnabled = "true"]

\* importScene.ts:246-314  parseUsdaTransforms: block name -> transform; the
\* block named World is skipped and a later block replaces an earlier one of
\* the same name (Map.set)
parseUsdaTransforms(blocks) ==
    LET named   == {blocks[i].name : i \in DOMAIN blocks} \ {NameWorld}
        last(n) == CHOOSE i \in DOMAIN blocks :
                      /\ blocks[i].name = n
                      /\ \A j \in DOMAIN blocks : blocks[j].name = n => j <= i
    IN  [n \in named |-> ParseBlock(blocks[last(n)])]

\* ApplyLegacy with the two branches of the orientation in the other order.
ApplyLegacyEulerFirst(asset, transforms) ==
    LET usdName == usdNameLegacy(asset.name)
    IN  IF usdName \notin DOMAIN transforms THEN asset
        ELSE LET t == transforms[usdName]
             IN  [asset EXCEPT
                    !.position = LegacyPosition(t.translate),
                    !.orientation =
                        IF t.rotate # <<>>
                        THEN EulerOrientation(LegacyRotation(t.rotate))
                        ELSE IF t.orient # <<>>
                             THEN QuatOrientation(LegacyQuaternion(t.orient))
                             ELSE @,
                    !.scale = LegacyScale(t.scale),
                    !.disableGravity = t.kinematic]

\* importScene.ts:194-237  the transform of the block whose name is the
\* sanitized folder name, applied to a loaded object
ApplyLegacy(asset, transforms) ==
    LET usdName == usdNameLegacy(asset.name)
    IN  IF usdName \notin DOMAIN transforms THEN asset
        ELSE LET t == transforms[usdName]
             IN  [asset EXCEPT
                    !.position = LegacyPosition(t.translate),
                    !.orientation =
                        IF t.orient # <<>>
                        THEN QuatOrientation(LegacyQuaternion(t.orient))
                        ELSE IF t.rotate # <<>>
                             THEN EulerOrientation(LegacyRotation(t.rotate))
                             ELSE @,
                    !.scale = LegacyScale(t.scale),
                    !.disableGravity = t.kinematic]

RECURSIVE LoadFolders(_, _, _, _)
\* importScene.ts:191-241  the loop over the discovered folder names
LoadFolders(zip, names, transforms, id) ==
    IF names = <<>> THEN <<>>
    ELSE LET loaded == loadAssetFromZip(zip, Head(names), id)
         IN  IF loaded = <<>>
             THEN LoadFolders(zip, Tail(names), transforms, id)
             ELSE <<ApplyLegacy(loaded[1], transforms)>> \o
                  LoadFolders(zip, Tail(names), transforms, id + 1)

\* importScene.ts:177-187  the first path component of every entry below
\* assets/, in the order of first occurrence
assetNames(zip) == Dedup([k \in DOMAIN zip.entries |-> zip.entries[k].asset])

\* importScene.ts:164-244  importFromFolderStructure(zip, assetLoader)
importFromFolderStructure(zip, id) ==
    LET transforms == IF zip.sceneUsda.kind = "usda"
                      THEN parseUsdaTransforms(zip.sceneUsda.blocks)
                      ELSE <<>>
    IN  LoadFolders(zip, assetNames(zip), transforms, id)

\* importScene.ts:131-148  the manifest entry applied to a loaded object
ApplyConfig(asset, assetConfig) ==
    [asset EXCEPT
        !.position = assetConfig.position,
        !.orientation = EulerOrientation(assetConfig.rotation),
        !.scale = assetConfig.scale,
        !.disableGravity = assetConfig.disableGravity]

RECURSIVE LoadConfigs(_, _, _)
\* importScene.ts:128-151  the loop over config.assets
LoadConfigs(zip, configs, id) ==
    IF configs = <<>> THEN <<>>
    ELSE LET loaded == loadAssetFromZip(zip, Head(configs).name, id)
         IN  IF loaded = <<>>
             THEN LoadConfigs(zip, Tail(configs), id)
             ELSE <<ApplyConfig(loaded[1], Head(configs))>> \o
                  LoadConfigs(zip, Tail(configs), id + 1)

\* importScene.ts:123-124  JSON.parse(configText) throws, or config.assets is
\* not a list (the for...of at line 128 throws)
ManifestThrows(configFile) ==
    configFile.kind = "badjson" \/ "assets" \notin DOMAIN configFile

\* importScene.ts:118-154  importFromSceneJson(zip, configFile, assetLoader)
importFromSceneJson(zip, id) == LoadConfigs(zip, zip.sceneJson.assets, id)

\* ConditionPoses giving up the whole condition on the first unmatched name
\* (a `return` where the code has `continue`).
ConditionPosesAllOrNothing(poseData, assetList) ==
    LET match(usdName) == {i \in DOMAIN assetList :
                              usdNamePose(assetList[i].name) = usdName}
        find(usdName)  == assetList[CHOOSE i \in match(usdName) :
                                       \A j \in match(usdName) : i <= j]
        kept           == IF \A usdName \in DOMAIN poseData : match(usdName) # {}
                          THEN DOMAIN poseData ELSE {}
        ids            == {find(usdName).id : usdName \in kept}
        keyOf(id)      == CHOOSE usdName \in kept : find(usdName).id = id
    IN  [id \in ids |->
            [position   |-> PosePosition(poseData[keyOf(id)]),
             quaternion |-> PoseQuaternion(poseData[keyOf(id)])]]

\* importScene.ts:78-102  one entry of the pose document -> one snapshot
ConditionPoses(poseData, assetList) ==
    LET match(usdName) == {i \in DOMAIN assetList :
                              usdNamePose(assetList[i].name) = usdName}
        \* assets.find: the first object whose sanitized name is usdName
        find(usdName)  == assetList[CHOOSE i \in match(usdName) :
                                       \A j \in match(usdName) : i <= j]
        kept           == {usdName \in DOMAIN poseData : match(usdName) # {}}
        ids            == {find(usdName).id : usdName \in kept}
        keyOf(id)      == CHOOSE usdName \in kept : find(usdName).id = id
    IN  [id \in ids |->
            [position   |-> PosePosition(poseData[keyOf(id)]),
             quaternion |-> PoseQuaternion(poseData[keyOf(id)])]]

\* importScene.ts:59-116  loadInitialConditions(zip, assets)
loadInitialConditions(zip, assetList) ==
    LET f == zip.initialConditions
    IN  IF f.kind = "absent"
        THEN [savedConditions |-> <<>>, instruction |-> ""]
        ELSE IF f.kind = "badjson" \/ "poses" \notin DOMAIN f
        THEN [savedConditions |-> <<>>, instruction |-> ""]
        ELSE LET all == [k \in DOMAIN f.poses |->
                            [poses |-> ConditionPoses(f.poses[k], assetList)]]
             IN  [savedConditions |->
                      SelectSeq(all, LAMBDA c : DOMAIN c.poses # {}),
                  instruction |->
                      IF f.instruction = <<>> THEN "" ELSE f.instruction[1]]

\* importScene without the fallback: an archive with no scene.json is rejected.
importSceneManifestOnly(zip, id) ==
    IF zip.sceneJson.kind = "absent" \/ ManifestThrows(zip.sceneJson)
    THEN [status |-> "rejected", assets |-> <<>>,
          savedConditions |-> <<>>, instruction |-> ""]
    ELSE LET loaded == importFromSceneJson(zip, id)
             ic     == loadInitialConditions(zip, loaded)
         IN  [status |-> "resolved", assets |-> loaded,
              savedConditions |-> ic.savedConditions,
              instruction |-> ic.instruction]

\* importScene reading the folders when the manifest cannot be read.
importSceneLenient(zip, id) ==
    LET loaded == IF zip.sceneJson.kind # "absent" /\ ~ManifestThrows(zip.sceneJson)
                  THEN importFromSceneJson(zip, id)
                  ELSE importFromFolderStructure(zip, id)
        ic     == loadInitialConditions(zip, loaded)
    IN  [status |-> "resolved", assets |-> loaded,
         savedConditions |-> ic.savedConditions,
         instruction |-> ic.instruction]

\* importScene.ts:36-57  importScene(zipFile, assetLoader): the value the
\* promise resolves to, or a rejection
importScene(zip, id) ==
    IF zip.sceneJson.kind # "absent" /\ ManifestThrows(zip.sceneJson)
    THEN [status |-> "rejected", assets |-> <<>>,
          savedConditions |-> <<>>, instruction |-> ""]
    ELSE LET loaded == IF zip.sceneJson.kind # "absent"
                       THEN importFromSceneJson(zip, id)
                       ELSE importFromFolderStructure(zip, id)
             ic     == loadInitialConditions(zip, loaded)
         IN  [status |-> "resolved", assets |-> loaded,
              savedConditions |-> ic.savedConditions,
              instruction |-> ic.instruction]

(* ---------------------------------------------------------------------- *)
(* State                                                                   *)
(* ---------------------------------------------------------------------- *)

VARIABLES
    assets,           \* useScene.ts:76  the object list
    savedConditions,  \* useScene.ts:82  the condition history
    instruction,      \* useScene.ts:83  the instruction text
    notification,     \* Toolbar.tsx:15  the message shown, "" for none
    nextId,           \* the next id the geometry loader hands out
    disk,             \* the archives the user can pick in the import dialog
    io,               \* "idle", "exported" (handleExport has run), "imported"
    exportArg,        \* the list given to exportScene by the last handleExport
    exportResult,     \* the ExportResult of the last exportScene
    download,         \* the archive handed to downloadBlob, or NoArchive
    importFile,       \* the archive given to importScene by the last import
    importResult,     \* what the last importScene resolved to, or a rejection
    frame,            \* one value carried through export and import mappings
    isRandomizeMode,  \* useScene.ts:79
    spawnBounds,      \* useScene.ts:80  the spawn volume, export frame (Z up)
    savedPoses,       \* useScene.ts:81  the poses before the last pass, or null
    timers,           \* the setTimeout callbacks of useScene.ts:466 not yet run
    pass              \* the placement pass in progress (useScene.ts:351-445)

\* The state of the randomize mode.
placeVars == <<isRandomizeMode, spawnBounds, savedPoses, timers, pass>>

vars == <<assets, savedConditions, instruction, notification, nextId, disk, io,
          exportArg, exportResult, download, importFile, importResult, frame,
          isRandomizeMode, spawnBounds, savedPoses, timers, pass>>

NoResult == [status |-> "none"]

NoFrame == [pc |-> "off"]

\* useScene.ts:81  useState<Map<string, SavedPose> | null>(null)
NoPoses == [kind |-> "null"]

\* No call of randomizeNonStaticAssets is on the stack.
NoPass ==
    [pc |-> "idle", trigger |-> "", dyn |-> <<>>, i |-> 0, attempt |-> 0,
     placed |-> FALSE, placedBoxes |-> <<>>, bounds |-> <<>>, log |-> <<>>]

\* useScene.ts:63-70  DEFAULT_SPAWN_BOUNDS, in units of 1/200 (0.05 is 10)
DEFAULT_SPAWN_BOUNDS ==
    [minX |-> -60, maxX |-> 60, minY |-> -60, maxY |-> 60, minZ |-> 10, maxZ |-> 30]

\* useScene.ts:79-83  the randomize mode right after useSceneProvider's first
\* render
PlaceInit ==
    /\ isRandomizeMode = FALSE
    /\ spawnBounds = DEFAULT_SPAWN_BOUNDS
    /\ savedPoses = NoPoses
    /\ timers = <<>>
    /\ pass = NoPass

(* ---------------------------------------------------------------------- *)
(* Scenes an export starts from                                            *)
(* ---------------------------------------------------------------------- *)

\* Two transforms set through updateAssetTransform (useScene.ts:133-149):
\* the loader's, and one whose nine numbers tell the axes and signs apart.
SceneTransforms ==
    {[position |-> <<0, 0, 0>>,  rotation |-> <<0, 0, 0>>,  scale |-> <<1, 1, 1>>],
     [position |-> <<1, -2, 3>>, rotation |-> <<2, -1, 6>>, scale |-> <<2, 3, 4>>]}

\* An object as AssetLoader returns it (importScene.ts:471-478, 568-577) with
\* its flags and transform set.  Both excludeFromExport and locked are set
\* together, as at Toolbar.tsx:112.
SceneAsset(id, name, t, gravityOff, excluded) ==
    [id |-> id,
     name |-> name,
     position |-> t.position,
     orientation |-> EulerOrientation(t.rotation),
     scale |-> t.scale,
     files |-> <<[top |-> name, dirs |-> <<>>, file |-> FileUsd],
                 [top |-> name, dirs |-> <<"textures">>, file |-> FilePng]>>,
     mainFile |-> [top |-> name, dirs |-> <<>>, file |-> FileUsd],
     fileType |-> "usd",
     excludeFromExport |-> excluded,
     locked |-> excluded,
     disableGravity |-> gravityOff]

AssetOptions == Names \X SceneTransforms \X BOOLEAN \X BOOLEAN

\* The object lists of at most n objects, ids 1..k in list order.
Scenes(n) ==
    UNION {{[i \in 1..k |-> SceneAsset(i, f[i][1], f[i][2], f[i][3], f[i][4])] :
              f \in [1..k -> AssetOptions]} : k \in 0..n}

\* The scenes an archive of the user is imported into: the empty scene, a
\* scene of one static object and a scene of one movable object.
StartScenes ==
    {<<>>} \cup
    {<<SceneAsset(1, NameBox,
                  [position |-> <<1, -2, 3>>, rotation |-> <<2, -1, 6>>,
                   scale |-> <<2, 3, 4>>], gravityOff, FALSE)>> :
        gravityOff \in BOOLEAN}

\* Instruction texts: empty, whitespace-only, non-blank.
Instructions == {"", " ", "pick up the box"}

\* instruction.trim() === ''
IsBlank(text) == text \in {"", " "}

(* ---------------------------------------------------------------------- *)
(* Archives the user may pick that no export of this session wrote         *)
(* ---------------------------------------------------------------------- *)

NameGhost == <<"G","h","o","s","t">>

PayloadFile(name, dirs, file) ==
    [asset |-> name, dirs |-> dirs, file |-> file, dir |-> FALSE]

\* Payload trees: (1) two loadable folders; (2) a folder whose main file
\* cannot be decoded, a folder with no 3D file, and a loadable folder.
UserEntries ==
    {<<PayloadFile(NameBox, <<>>, FileUsd),
       PayloadFile(NameHash, <<>>, FilePng),
       PayloadFile(NameHash, <<"geo">>, FileGlb)>>,
     <<PayloadFile(NameBox, <<>>, FileBadUsd),
       PayloadFile(NameUnder, <<>>, FilePng),
       PayloadFile(NameHash, <<>>, FileUsd)>>}

\* A block as a legacy document may hold it: orient and rotateXYZ each
\* present or not.
LegacyBlock(name, withOrient, withRotate, kinematicText) ==
    [name |-> name,
     apiSchemas |-> <<>>,
     references |-> [asset |-> name, file |-> FileUsd],
     translate |-> TextTuple(<<4, -5, 6>>),
     orient |-> IF withOrient THEN TextTuple(<<1, 2, -3, 4>>) ELSE <<>>,
     rotateXYZ |-> IF withRotate THEN TextTuple(<<90, -45, 30>>) ELSE <<>>,
     scale |-> TextTuple(<<2, 3, 4>>),
     xformOpOrder |-> <<>>,
     kinematicEnabled |-> kinematicText]

\* A block with a name only: every field takes its default.
BareBlock(name) == [RootBlock EXCEPT !.name = name]

UserUsdaFiles ==
    {Absent} \cup
    {[kind |-> "usda", defaultPrim |-> "World", metersPerUnit |-> 1, upAxis |-> "Z",
      blocks |-> <<RootBlock,
                   LegacyBlock(NameBox, o, r, k),
                   BareBlock(NameUnder),
                   LegacyBlock(NameGhost, TRUE, TRUE, "true")>>] :
        o \in BOOLEAN, r \in BOOLEAN, k \in {"true", "false"}}

\* A manifest entry (importScene.ts:6-14).
AssetConfig(id, name, t, gravityOff) ==
    [id |-> id, name |-> name,
     mainFile |-> [top |-> name, dirs |-> <<>>, file |-> FileUsd],
     position |-> t.position, rotation |-> t.rotation, scale |-> t.scale,
     disableGravity |-> gravityOff]

ManifestTransform ==
    [position |-> <<7, 8, -9>>, rotation |-> <<3, 0, -2>>, scale |-> <<5, 1, 2>>]

\* scene.json: absent, not JSON, JSON without an asset list, a manifest
\* (one entry names a folder the archive does not hold).
UserManifestFiles ==
    {Absent, BadJson, [kind |-> "json", version |-> 1],
     [kind |-> "json", version |-> 1,
      assets |-> <<AssetConfig(41, NameBox, ManifestTransform, TRUE),
                   AssetConfig(42, NameGhost, ManifestTransform, FALSE),
                   AssetConfig(43, NameHash, ManifestTransform, FALSE)>>]}

PoseA == <<1, 2, 3, 4, 5, 6, 7>>
PoseB == <<-1, 0, 2, 0, 0, 0, 1>>

\* initial_conditions.json: absent, not JSON, JSON without a pose list, and
\* documents whose conditions name an object the archive does not hold.
UserPoseFiles ==
    {Absent, BadJson, [kind |-> "json", instruction |-> <<"stack the boxes">>]} \cup
    {[kind |-> "json", instruction |-> i,
      poses |-> <<(NameBox :> PoseA) @@ (NameGhost :> PoseB),
                  (NameGhost :> PoseA),
                  (NameUnder :> PoseB) @@ (NameBox :> PoseB)>>] :
        i \in {<<>>, <<"stack the boxes">>}}

UserArchives ==
    {[kind |-> "zip", sceneJson |-> j, sceneUsda |-> u,
      initialConditions |-> p, entries |-> e] :
        j \in UserManifestFiles, u \in UserUsdaFiles,
        p \in UserPoseFiles, e \in UserEntries}

Init ==
    /\ \/ assets \in Scenes(MaxAssets) /\ disk = {}
       \/ assets \in StartScenes /\ disk \in {{a} : a \in UserArchives}
    /\ savedConditions = <<>>
    /\ instruction \in Instructions
    /\ notification = ""
    /\ nextId = Len(assets) + 1
    /\ io = "idle"
    /\ exportArg = <<>>
    /\ exportResult = NoResult
    /\ download = NoArchive
    /\ importFile = NoArchive
    /\ importResult = NoResult
    /\ frame = NoFrame
    /\ PlaceInit

(* ---------------------------------------------------------------------- *)
(* Toolbar.tsx                                                             *)
(* ---------------------------------------------------------------------- *)

\* Toolbar.tsx:69-75  handleExport; exportScene.ts:94-95 downloads the archive
HandleExport ==
    /\ pass.pc = "idle"
    /\ io = "idle"
    /\ Len(assets) # 0
    /\ LET result == exportScene(assets)
       IN  /\ exportArg' = assets
           /\ exportResult' = [success |-> result.success, error |-> result.error]
           /\ download' = result.zip
           /\ disk' = IF result.success THEN disk \cup {result.zip} ELSE disk
           /\ notification' = IF ~result.success /\ result.error # ""
                              THEN result.error ELSE notification
    /\ io' = "exported"
    /\ UNCHANGED <<assets, savedConditions, instruction, nextId,
                   importFile, importResult, frame>>
    /\ UNCHANGED placeVars

\* Toolbar.tsx:81-104  handleImportSelect; addAsset is useScene.ts:98-107
HandleImportSelect(file) ==
    /\ pass.pc = "idle"
    /\ io # "imported"
    /\ LET result == importScene(file, nextId)
       IN  /\ importFile' = file
           /\ importResult' = result
           /\ IF result.status = "resolved"
              THEN /\ assets' = assets \o result.assets
                   /\ nextId' = nextId + Len(result.assets)
                   /\ savedConditions' = IF Len(result.savedConditions) > 0
                                         THEN result.savedConditions
                                         ELSE savedConditions
                   /\ instruction' = IF result.instruction # ""
                                     THEN result.instruction ELSE instruction
              ELSE UNCHANGED <<assets, nextId, savedConditions, instruction>>
    /\ io' = "imported"
    /\ UNCHANGED <<notification, disk, exportArg, exportResult, download, frame>>
    /\ UNCHANGED placeVars

Next ==
    \/ HandleExport
    \/ \E file \in disk : HandleImportSelect(file)

Spec == Init /\ [][Next]_vars

(* ---------------------------------------------------------------------- *)
(* The frame mappings on their own                                         *)
(*                                                                         *)
(* A position or a quaternion is carried through the export mapping and    *)
(* the import mapping, in either order.  frame.op says which pair:         *)
(*   "translate"        exportScene.ts:66    and importScene.ts:203-207    *)
(*   "pose-position"    the pose entry       and importScene.ts:94         *)
(*   "orient"           the orient field     and importScene.ts:214-219    *)
(*   "pose-quaternion"  the pose entry       and importScene.ts:99         *)
(* ---------------------------------------------------------------------- *)

\* Largest magnitude of a coordinate or quaternion component.
MaxCoord == 2

Coords == (0 - MaxCoord)..MaxCoord

Vec3s == Coords \X Coords \X Coords
Vec4s == Coords \X Coords \X Coords \X Coords

FrameOps == {"translate", "pose-position", "orient", "pose-quaternion"}

IdentityQuat == <<0, 0, 0, 1>>

\* The live-frame values an export starts from.
FrameLive(op) ==
    IF op \in {"translate", "pose-position"} THEN Vec3s ELSE Vec4s

\* The export-frame values an import starts from: a text tuple of the
\* description document, or the number list of a pose entry.
FrameExported(op) ==
    CASE op = "translate"       -> {TextTuple(v) : v \in Vec3s}
      [] op = "orient"          -> {TextTuple(v) : v \in Vec4s}
      [] op = "pose-position"   -> {v \o IdentityQuat : v \in Vec3s}
      [] op = "pose-quaternion" -> {<<0, 0, 0>> \o v : v \in Vec4s}

\* What an export writes for a live value.
FrameExportOf(op, live) ==
    CASE op = "translate" ->
            ExportBlock(SceneAsset(1, NameBox,
                [position |-> live, rotation |-> <<0, 0, 0>>,
                 scale |-> <<1, 1, 1>>], FALSE, FALSE)).translate
      [] op = "orient"          -> TextTuple(ExportOrient(live))
      [] op = "pose-position"   -> ExportPoseValues(live, IdentityQuat)
      [] op = "pose-quaternion" -> ExportPoseValues(<<0, 0, 0>>, live)

\* The object the legacy import builds from a block that holds one field.
FrameLegacyObject(field, text) ==
    ApplyLegacy(
        loadFromFiles(<<[top |-> NameBox, dirs |-> <<>>, file |-> FileUsd]>>,
                      NameBox, 1)[1],
        parseUsdaTransforms(
            <<RootBlock,
              IF field = "translate"
              THEN [BareBlock(NameBox) EXCEPT !.translate = text]
              ELSE [BareBlock(NameBox) EXCEPT !.orient = text]>>))

\* What an import reads from an exported value.
FrameImportOf(op, exported) ==
    CASE op = "translate"       -> FrameLegacyObject("translate", exported).position
      [] op = "orient"          -> FrameLegacyObject("orient", exported).orientation.v
      [] op = "pose-position"   -> PosePosition(exported)
      [] op = "pose-quaternion" -> PoseQuaternion(exported)

FrameStart(op, fwd, v) ==
    [pc |-> "start", op |-> op, fwd |-> fwd, in |-> v, mid |-> <<>>, out |-> <<>>]

FrameStarts ==
    UNION {{FrameStart(op, TRUE, v) : v \in FrameLive(op)} \cup
           {FrameStart(op, FALSE, v) : v \in FrameExported(op)} : op \in FrameOps}

FrameInit ==
    /\ frame \in FrameStarts
    /\ assets = <<>>
    /\ savedConditions = <<>>
    /\ instruction = ""
    /\ notification = ""
    /\ nextId = 1
    /\ disk = {}
    /\ io = "idle"
    /\ exportArg = <<>>
    /\ exportResult = NoResult
    /\ download = NoArchive
    /\ importFile = NoArchive
    /\ importResult = NoResult
    /\ PlaceInit

FrameRest ==
    UNCHANGED <<assets, savedConditions, instruction, notification, nextId, disk,
                io, exportArg, exportResult, download, importFile, importResult,
                isRandomizeMode, spawnBounds, savedPoses, timers, pass>>

\* The export mapping, applied first (fwd) or second.
FrameExport ==
    /\ \/ frame.pc = "start" /\ frame.fwd
          /\ frame' = [frame EXCEPT !.pc = "mid",
                                    !.mid = FrameExportOf(frame.op, frame.in)]
       \/ frame.pc = "mid" /\ ~frame.fwd
          /\ frame' = [frame EXCEPT !.pc = "done",
                                    !.out = FrameExportOf(frame.op, frame.mid)]
    /\ FrameRest

\* The import mapping, applied second (fwd) or first.
FrameImport ==
    /\ \/ frame.pc = "mid" /\ frame.fwd
          /\ frame' = [frame EXCEPT !.pc = "done",
                                    !.out = FrameImportOf(frame.op, frame.mid)]
       \/ frame.pc = "start" /\ ~frame.fwd
          /\ frame' = [frame EXCEPT !.pc = "mid",
                                    !.mid = FrameImportOf(frame.op, frame.in)]
    /\ FrameRest

FrameNext == FrameExport \/ FrameImport

SpecFrame == FrameInit /\ [][FrameNext]_vars

(* ---------------------------------------------------------------------- *)
(* Name sanitizing on its own                                              *)
(*                                                                         *)
(* One object name is sanitized at each of the three places that do it:    *)
(* exportScene.ts:49, importScene.ts:196 and importScene.ts:80.            *)
(* ---------------------------------------------------------------------- *)

\* Longest name drawn from NameChars.
MaxNameLen == 3

\* Code units of a name: a capital, a small letter, a digit, the underscore,
\* and three that the pattern does not keep.
NameChars == {"T", "e", "1", "_", " ", "#", "-"}

NameTable == <<"T","a","b","l","e"," ","#","1">>

NameSeqs(n) == UNION {[1..k -> NameChars] : k \in 1..n}

NameStarts ==
    {[pc |-> "name", name |-> n, done |-> {},
      exported |-> <<>>, legacy |-> <<>>, pose |-> <<>>] :
        n \in NameSeqs(MaxNameLen) \cup {NameTable}}

NameInit ==
    /\ frame \in NameStarts
    /\ assets = <<>>
    /\ savedConditions = <<>>
    /\ instruction = ""
    /\ notification = ""
    /\ nextId = 1
    /\ disk = {}
    /\ io = "idle"
    /\ exportArg = <<>>
    /\ exportResult = NoResult
    /\ download = NoArchive
    /\ importFile = NoArchive
    /\ importResult = NoResult
    /\ PlaceInit

\* exportScene.ts:49, 61  the identifier of the block written for the object
NameExport ==
    /\ frame.pc = "name" /\ "export" \notin frame.done
    /\ frame' = [frame EXCEPT
                   !.done = @ \cup {"export"},
                   !.exported = ExportBlock(SceneAsset(1, frame.name,
                       [position |-> <<0, 0, 0>>, rotation |-> <<0, 0, 0>>,
                        scale |-> <<1, 1, 1>>], FALSE, FALSE)).name]
    /\ FrameRest

\* importScene.ts:196  the key looked up in the parsed transforms
NameLegacy ==
    /\ frame.pc = "name" /\ "legacy" \notin frame.done
    /\ frame' = [frame EXCEPT !.done = @ \cup {"legacy"},
                              !.legacy = usdNameLegacy(frame.name)]
    /\ FrameRest

\* importScene.ts:80  the key an entry of the pose document is compared with
NamePose ==
    /\ frame.pc = "name" /\ "pose" \notin frame.done
    /\ frame' = [frame EXCEPT !.done = @ \cup {"pose"},
                              !.pose = usdNamePose(frame.name)]
    /\ FrameRest

NameNext == NameExport \/ NameLegacy \/ NamePose

SpecName == NameInit /\ [][NameNext]_vars

(* ---------------------------------------------------------------------- *)
(* useScene.ts: the placement pass                                         *)
(*                                                                         *)
(* Lengths are integers in units of 1/200, and every size and bound of the *)
(* model is a multiple of 20 so that the halves and the rotated corners    *)
(* are integers too.  A yaw is an angle in units of pi/PiUnits.            *)
(* ---------------------------------------------------------------------- *)

\* The attempts of the retry loop (useScene.ts:369 has 100).
maxAttempts == 2

\* Math.random() returns r / RandScale for an r in Rand.
RandScale == 2

Rand == 0..(RandScale - 1)

\* Sines and cosines are integers over TrigScale.
TrigScale == 10

\* The yaws drawn at useScene.ts:407: 0, 45, 90 and 180 degrees.
Yaws == {0, 3, 6, 12}

Cos(yaw) == CASE yaw = 0 -> 10 [] yaw = 3 -> 7 [] yaw = 6 -> 0 [] yaw = 12 -> -10

Sin(yaw) == CASE yaw = 0 -> 0 [] yaw = 3 -> 7 [] yaw = 6 -> 10 [] yaw = 12 -> 0

\* The quaternion (x, y, z, w) three.js keeps for rotation.set(0, yaw, 0):
\* (0, sin(yaw/2), 0, cos(yaw/2)), over TrigScale.
YawQuaternion(yaw) ==
    CASE yaw = 0  -> <<0, 0, 0, 10>>
      [] yaw = 3  -> <<0, 4, 0, 9>>
      [] yaw = 6  -> <<0, 7, 0, 7>>
      [] yaw = 12 -> <<0, 10, 0, 0>>

\* object.quaternion of an object: the quaternion it was given, or the one
\* of its Euler angles when these are a yaw of Yaws.
quaternionOf(o) ==
    IF o.kind = "quat" THEN o.v
    ELSE IF o.v[1] = 0 /\ o.v[3] = 0 /\ o.v[2] \in Yaws
         THEN YawQuaternion(o.v[2])
         ELSE CHOOSE q \in {} : TRUE

Half(n) == n \div 2

MinOf(S) == CHOOSE m \in S : \A n \in S : m <= n

MaxOf(S) == CHOOSE m \in S : \A n \in S : n <= m

\* The mesh the loader decoded for an object, as the box of its vertices in
\* the object's own frame: a cube around the origin, or (for the name T_1) a
\* slab whose origin is at its base.
GeometryOf(asset) ==
    IF asset.name = NameUnder
    THEN [min |-> <<-10, 0, -20>>, max |-> <<10, 20, 20>>]
    ELSE [min |-> <<-10, -10, -10>>, max |-> <<10, 10, 10>>]

\* The mesh's box scaled by asset.scale (positive).
ScaledGeometry(g, scale) ==
    [min |-> [k \in 1..3 |-> g.min[k] * scale[k]],
     max |-> [k \in 1..3 |-> g.max[k] * scale[k]]]

\* The world x and z of the corners (x, z) turned by `yaw` about the up axis.
TurnedX(xs, zs, yaw) ==
    {(x * Cos(yaw) + z * Sin(yaw)) \div TrigScale : x \in xs, z \in zs}

TurnedZ(xs, zs, yaw) ==
    {(z * Cos(yaw) - x * Sin(yaw)) \div TrigScale : x \in xs, z \in zs}

SpanBox(position, wx, lo, hi, wz) ==
    [min |-> <<position[1] + MinOf(wx), position[2] + lo, position[3] + MinOf(wz)>>,
     max |-> <<position[1] + MaxOf(wx), position[2] + hi, position[3] + MaxOf(wz)>>]

TurnedBox(g, position, yaw) ==
    SpanBox(position,
            TurnedX({g.min[1], g.max[1]}, {g.min[3], g.max[3]}, yaw),
            g.min[2], g.max[2],
            TurnedZ({g.min[1], g.max[1]}, {g.min[3], g.max[3]}, yaw))

\* Box3.setFromObject for an object at `position`, turned by `yaw` about the
\* live frame's up axis and scaled by asset.scale.
BoxOf(asset, position, yaw) ==
    TurnedBox(ScaledGeometry(GeometryOf(asset), asset.scale), position, yaw)

\* Box3.containsBox in the place of Box3.intersectsBox.
checkCollisionContains(box1, box2) ==
    \A k \in 1..3 : box2.min[k] <= box1.min[k] /\ box1.max[k] <= box2.max[k]

\* useScene.ts:310-312  checkCollision: Box3.intersectsBox, touching included
checkCollision(box1, box2) ==
    ~(\E k \in 1..3 : box2.max[k] < box1.min[k] \/ box2.min[k] > box1.max[k])

\* Box3.getSize
BoxSize(box) == [k \in 1..3 |-> box.max[k] - box.min[k]]

\* useScene.ts:314-332  getAssetLocalSize: the size of the box at the origin
\* with no rotation
getAssetLocalSize(asset) == BoxSize(BoxOf(asset, <<0, 0, 0>>, 0))

\* useScene.ts:334-349  isBoxWithinSpawnBounds
isBoxWithinSpawnBounds(box, bounds) ==
    /\ box.min[1] >= bounds.minX /\ box.max[1] <= bounds.maxX
    /\ box.min[2] >= bounds.minZ /\ box.max[2] <= bounds.maxZ
    /\ box.min[3] >= 0 - bounds.maxY /\ box.max[3] <= 0 - bounds.minY

\* useScene.ts:381-386
ShrinkBy(bounds, maxHorizontalExtent, verticalExtent) ==
    [validMinX |-> bounds.minX + maxHorizontalExtent,
     validMaxX |-> bounds.maxX - maxHorizontalExtent,
     validMinY |-> bounds.minY + maxHorizontalExtent,
     validMaxY |-> bounds.maxY - maxHorizontalExtent,
     validMinZ |-> bounds.minZ + verticalExtent,
     validMaxZ |-> bounds.maxZ - verticalExtent]

\* useScene.ts:377-378
ExtentsOf(assetSize, bounds) ==
    ShrinkBy(bounds,
             Half(IF assetSize[1] >= assetSize[3] THEN assetSize[1] ELSE assetSize[3]),
             Half(assetSize[2]))

\* useScene.ts:375-386  the shrunk sampling range of an object
ValidRange(asset, bounds) == ExtentsOf(getAssetLocalSize(asset), bounds)

\* useScene.ts:389
canFit(v) ==
    v.validMinX < v.validMaxX /\ v.validMinY < v.validMaxY /\ v.validMinZ < v.validMaxZ

\* min + Math.random() * (max - min)
Sample(lo, hi, r) == lo + (r * (hi - lo)) \div RandScale

\* A position always sampled from the shrunk range.
PositionInSampled(v, bounds, draw) ==
    <<Sample(v.validMinX, v.validMaxX, draw.rx),
      Sample(v.validMinZ, v.validMaxZ, draw.ry),
      0 - Sample(v.validMinY, v.validMaxY, draw.rz)>>

\* useScene.ts:394-404  the position of one attempt, live frame
PositionIn(v, bounds, draw) ==
    IF canFit(v)
    THEN <<Sample(v.validMinX, v.validMaxX, draw.rx),
           Sample(v.validMinZ, v.validMaxZ, draw.ry),
           0 - Sample(v.validMinY, v.validMaxY, draw.rz)>>
    ELSE <<Half(bounds.minX + bounds.maxX),
           Half(bounds.minZ + bounds.maxZ),
           0 - Half(bounds.minY + bounds.maxY)>>

AttemptPosition(asset, bounds, draw) ==
    PositionIn(ValidRange(asset, bounds), bounds, draw)

\* The four Math.random() calls of one attempt (useScene.ts:396-398, 407).
Draws == [rx : Rand, ry : Rand, rz : Rand, yaw : Yaws]

\* useScene.ts:304-308  getAssetBoundingBox of an object the pass has turned
\* to a yaw
getAssetBoundingBox(asset) == BoxOf(asset, asset.position, asset.orientation.v[2])

\* The filter without the gravity flag.
dynamicAssetsOfAnyGravity(assetList) ==
    SelectSeq(assetList, LAMBDA a : ~a.excludeFromExport /\ ~a.locked)

\* useScene.ts:353, 449  the movable objects of a list
dynamicAssetsOf(assetList) ==
    SelectSeq(assetList, LAMBDA a : ~a.excludeFromExport /\ ~a.disableGravity /\ ~a.locked)

\* The object of a closure's list as it is now: asset.object is shared with
\* the scene's list, the other fields are those of the closure.
LiveObject(a) ==
    IF \E k \in DOMAIN assets : assets[k].id = a.id
    THEN LET l == assets[CHOOSE k \in DOMAIN assets : assets[k].id = a.id]
         IN  [a EXCEPT !.position = l.position, !.orientation = l.orientation,
                       !.scale = l.scale]
    ELSE a

\* Poses that leave the orientation out.
PosesOfUnturned(assetList) ==
    [id \in {assetList[k].id : k \in DOMAIN assetList} |->
        LET a == assetList[CHOOSE k \in DOMAIN assetList : assetList[k].id = id]
        IN  [position |-> a.position, quaternion |-> YawQuaternion(0)]]

\* useScene.ts:358-364, 452-458  the poses of a list of objects, by id
PosesOf(assetList) ==
    [id \in {assetList[k].id : k \in DOMAIN assetList} |->
        LET a == assetList[CHOOSE k \in DOMAIN assetList : assetList[k].id = id]
        IN  [position |-> a.position, quaternion |-> quaternionOf(a.orientation)]]

\* useScene.ts:417-422  the loop over placedBoxes
hasCollision(assetBox, placedBoxes) ==
    \E k \in DOMAIN placedBoxes : checkCollision(assetBox, placedBoxes[k])

\* An acceptance that leaves the containment check out.
AcceptsAttemptUncontained(fits, collides, withinBounds) == ~collides

\* useScene.ts:427-434  whether an attempt is accepted
AcceptsAttempt(fits, collides, withinBounds) ==
    (~collides /\ withinBounds) \/ (~fits /\ ~collides)

\* asset.object.position.set / rotation.set seen through the scene's list
MoveLive(assetList, moved) ==
    [k \in DOMAIN assetList |->
        IF assetList[k].id = moved.id
        THEN [assetList[k] EXCEPT !.position = moved.position,
                                  !.orientation = moved.orientation]
        ELSE assetList[k]]

\* Everything but the scene's objects, the poses before the pass and the pass.
PassRest ==
    UNCHANGED <<savedConditions, instruction, notification, nextId, disk, io,
                exportArg, exportResult, download, importFile, importResult,
                frame, isRandomizeMode, spawnBounds, timers>>

\* useScene.ts:355-369  after the filter: nothing to do, or the poses are
\* saved and the loop starts
StartWith(dynamicAssets, bounds, trigger) ==
    IF Len(dynamicAssets) = 0
    THEN UNCHANGED <<savedPoses, pass>>
    ELSE /\ savedPoses' = [kind |-> "map", poses |-> PosesOf(dynamicAssets)]
         /\ pass' = [pc |-> "loop", trigger |-> trigger, dyn |-> dynamicAssets,
                     i |-> 1, attempt |-> 0, placed |-> FALSE,
                     placedBoxes |-> <<>>, bounds |-> bounds, log |-> <<>>]

\* useScene.ts:351-369  randomizeNonStaticAssets up to the loop, called with
\* the object list and the spawn volume of the render that made the callback
StartPass(closure, trigger) ==
    StartWith(dynamicAssetsOf([k \in DOMAIN closure.assets |->
                                  LiveObject(closure.assets[k])]),
              closure.spawnBounds, trigger)

\* The Randomize button (RandomizationPanel, shown in randomize mode).
RandomizeNonStaticAssets ==
    /\ pass.pc = "idle"
    /\ isRandomizeMode
    /\ StartPass([assets |-> assets, spawnBounds |-> spawnBounds], "button")
    /\ UNCHANGED assets
    /\ PassRest

\* useScene.ts:410-411  the object of an attempt, moved and turned
MovedBy(asset, bounds, draw) ==
    [asset EXCEPT !.position = AttemptPosition(asset, bounds, draw),
                  !.orientation = EulerOrientation(<<0, draw.yaw, 0>>)]

\* useScene.ts:427-434  the end of an attempt
AttemptCommit(moved, assetBox, accepted) ==
    /\ pass' = [pass EXCEPT
                  !.dyn[pass.i] = moved,
                  !.attempt = @ + 1,
                  !.placed = accepted,
                  !.placedBoxes = IF accepted THEN Append(@, assetBox) ELSE @]
    /\ assets' = MoveLive(assets, moved)

\* useScene.ts:413-425  the two checks on the box of an attempt
AttemptChecks(moved, assetBox) ==
    AttemptCommit(moved, assetBox,
        AcceptsAttempt(canFit(ValidRange(moved, pass.bounds)),
                       hasCollision(assetBox, pass.placedBoxes),
                       isBoxWithinSpawnBounds(assetBox, pass.bounds)))

AttemptWith(moved) == AttemptChecks(moved, getAssetBoundingBox(moved))

\* useScene.ts:391-435  one attempt of the retry loop, with its four draws
PassAttemptWith(draw) ==
    /\ pass.pc = "loop"
    /\ pass.attempt < maxAttempts /\ ~pass.placed
    /\ AttemptWith(MovedBy(pass.dyn[pass.i], pass.bounds, draw))
    /\ UNCHANGED savedPoses
    /\ PassRest

PassAttempt == \E draw \in Draws : PassAttemptWith(draw)

\* The record of one object of the pass.
LogEntry(asset) ==
    [id |-> asset.id, placed |-> pass.placed, attempts |-> pass.attempt,
     fits |-> canFit(ValidRange(asset, pass.bounds)),
     range |-> ValidRange(asset, pass.bounds),
     position |-> asset.position, yaw |-> asset.orientation.v[2]]

\* The end of an object's loop without the box of an object that was not
\* placed.
PassNextAssetUnrecorded ==
    /\ pass.pc = "loop"
    /\ pass.placed \/ pass.attempt = maxAttempts
    /\ pass' = [pass EXCEPT
                  !.pc = IF pass.i = Len(pass.dyn) THEN "done" ELSE "loop",
                  !.i = IF pass.i = Len(pass.dyn) THEN @ ELSE @ + 1,
                  !.attempt = 0,
                  !.placed = FALSE,
                  !.log = Append(@, LogEntry(pass.dyn[pass.i]))]
    /\ UNCHANGED <<assets, savedPoses>>
    /\ PassRest

\* useScene.ts:437-441  after the loop: an object that was not placed keeps
\* its last attempt, and its box is recorded; then the next object
PassNextAsset ==
    /\ pass.pc = "loop"
    /\ pass.placed \/ pass.attempt = maxAttempts
    /\ pass' = [pass EXCEPT
                  !.pc = IF pass.i = Len(pass.dyn) THEN "done" ELSE "loop",
                  !.i = IF pass.i = Len(pass.dyn) THEN @ ELSE @ + 1,
                  !.attempt = 0,
                  !.placed = FALSE,
                  !.placedBoxes =
                      IF pass.placed THEN @
                      ELSE Append(@, getAssetBoundingBox(pass.dyn[pass.i])),
                  !.log = Append(@, LogEntry(pass.dyn[pass.i]))]
    /\ UNCHANGED <<assets, savedPoses>>
    /\ PassRest

\* useScene.ts:443-445  the pass returns
PassReturn ==
    /\ pass.pc = "done"
    /\ pass' = NoPass
    /\ UNCHANGED <<assets, savedPoses>>
    /\ PassRest

(* ---------------------------------------------------------------------- *)
(* The placement pass on its own: one pass over a scene in randomize mode  *)
(* ---------------------------------------------------------------------- *)

\* An object with the loader's orientation and scale.
PlacedAsset(id, name, position, gravityOff, excluded) ==
    SceneAsset(id, name,
               [position |-> position, rotation |-> <<0, 0, 0>>,
                scale |-> <<1, 1, 1>>], gravityOff, excluded)

\* Scenes with two movable objects (two cubes, a cube and a slab, either
\* order), a static object and, in one, the locked robot.
PlaceScenes ==
    {<<PlacedAsset(1, NameBox, <<0, 0, 0>>, TRUE, FALSE),
       PlacedAsset(2, a, <<20, 0, 0>>, FALSE, FALSE),
       PlacedAsset(3, b, <<0, 20, 40>>, FALSE, FALSE)>> \o r :
        a \in {NameHash, NameUnder}, b \in {NameHash, NameUnder},
        r \in {<<>>, <<PlacedAsset(4, NameGhost, <<0, 0, 0>>, FALSE, TRUE)>>}}

\* Spawn volumes: the default (as high as a cube: the vertical range is one
\* point), a roomy one, one as wide as a slab is long (a cube fits, a slab's
\* range is one point), and one narrower than a slab is long.
PlaceBounds ==
    {DEFAULT_SPAWN_BOUNDS,
     [minX |-> -40, maxX |-> 40, minY |-> -40, maxY |-> 40, minZ |-> 0, maxZ |-> 30],
     [minX |-> -20, maxX |-> 20, minY |-> -40, maxY |-> 40, minZ |-> 0, maxZ |-> 60],
     [minX |-> -15, maxX |-> 15, minY |-> -40, maxY |-> 40, minZ |-> 0, maxZ |-> 60]}

PlaceSpecInit ==
    /\ assets \in PlaceScenes
    /\ spawnBounds \in PlaceBounds
    /\ isRandomizeMode = TRUE
    /\ savedPoses = NoPoses
    /\ timers = <<>>
    /\ pass = NoPass
    /\ savedConditions = <<>>
    /\ instruction = ""
    /\ notification = ""
    /\ nextId = Len(assets) + 1
    /\ disk = {}
    /\ io = "idle"
    /\ exportArg = <<>>
    /\ exportResult = NoResult
    /\ download = NoArchive
    /\ importFile = NoArchive
    /\ importResult = NoResult
    /\ frame = NoFrame

\* The first press of Randomize.
PlaceRandomize == savedPoses = NoPoses /\ RandomizeNonStaticAssets

PlaceNext == PlaceRandomize \/ PassAttempt \/ PassNextAsset \/ PassReturn

SpecPlace == PlaceSpecInit /\ [][PlaceNext]_vars

(* ---------------------------------------------------------------------- *)
(* The randomization panel, the asset panel and the toolbar on one scene   *)
(* ---------------------------------------------------------------------- *)

\* The most snapshots accepted into one history.
MaxHistory == 2

\* The most deferred passes waiting at once.
MaxTimers == 1

\* The most robots loaded into the scene.
MaxAdded == 1

\* The scene the panels start on: a static box and a movable cube.
PanelScene ==
    <<PlacedAsset(1, NameBox, <<0, 0, 0>>, TRUE, FALSE),
      PlacedAsset(2, NameHash, <<20, 0, 0>>, FALSE, FALSE)>>

\* The objects the asset panel and the property panel are used on.
PanelIds == {2}

\* The draws of the passes on this scene: the yaw is 0 or 45 degrees.
SceneDraws == {draw \in Draws : draw.rx = 0 /\ draw.ry = 0 /\ draw.rz = 0
                                  /\ draw.yaw \in {0, 3}}

\* canRandomize asking for a static object only.
canRandomizeStaticOnly(assetList) ==
    \E k \in DOMAIN assetList :
        /\ ~assetList[k].excludeFromExport /\ ~assetList[k].locked
        /\ assetList[k].disableGravity

\* RandomizationPanel (part_001:21-27)  canRandomize
canRandomize(assetList) ==
    /\ \E k \in DOMAIN assetList :
          /\ ~assetList[k].excludeFromExport /\ ~assetList[k].locked
          /\ ~assetList[k].disableGravity
    /\ \E k \in DOMAIN assetList :
          /\ ~assetList[k].excludeFromExport /\ ~assetList[k].locked
          /\ assetList[k].disableGravity

\* What no handler of the panels writes.
PanelRest ==
    UNCHANGED <<instruction, notification, disk, io, exportArg, exportResult,
                download, importFile, importResult, frame, spawnBounds, pass>>

\* RandomizationPanel handleEnterRandomize (part_001:53-59) and
\* useScene.ts:256-266  enterRandomizeMode
EnterRandomizeMode ==
    /\ pass.pc = "idle"
    /\ ~isRandomizeMode
    /\ canRandomize(assets)
    /\ isRandomizeMode' = TRUE
    /\ UNCHANGED <<assets, savedConditions, nextId, savedPoses, timers>>
    /\ PanelRest

\* useScene.ts:268-285  exitRandomizeMode
ExitRandomizeMode ==
    /\ pass.pc = "idle"
    /\ isRandomizeMode
    /\ isRandomizeMode' = FALSE
    /\ savedPoses' = NoPoses
    /\ UNCHANGED <<assets, savedConditions, nextId, timers>>
    /\ PanelRest

\* acceptRandomization taking the poses of every object of the list.
SnapshotAll(assetList) == <<[poses |-> PosesOf(assetList)]>>

\* useScene.ts:449-460  the snapshot an acceptance appends: none when no
\* object is movable
Snapshot(assetList) ==
    IF Len(dynamicAssetsOf(assetList)) > 0
    THEN <<[poses |-> PosesOf(dynamicAssetsOf(assetList))]>>
    ELSE <<>>

\* A deferred call that runs at once.
DeferNow(closure) ==
    /\ pass' = [pc |-> "loop", trigger |-> "timer",
                dyn |-> dynamicAssetsOf(closure.assets),
                i |-> 1, attempt |-> 0, placed |-> FALSE,
                placedBoxes |-> <<>>, bounds |-> closure.spawnBounds,
                log |-> <<>>]
    /\ UNCHANGED timers

\* useScene.ts:466-468  setTimeout(() => randomizeNonStaticAssets(), 0): the
\* callback of this render waits in the timer queue
Defer(closure) ==
    /\ timers' = Append(timers, closure)
    /\ UNCHANGED pass

\* acceptRandomization leaving the candidate poses in place.
AcceptRandomizationKeepsPoses ==
    /\ pass.pc = "idle"
    /\ isRandomizeMode
    /\ savedPoses # NoPoses
    /\ Len(savedConditions) < MaxHistory
    /\ Len(timers) < MaxTimers
    /\ savedConditions' = savedConditions \o Snapshot(assets)
    /\ Defer([assets |-> assets, spawnBounds |-> spawnBounds])
    /\ UNCHANGED <<assets, nextId, isRandomizeMode, spawnBounds, instruction,
                   notification, disk, io, exportArg, exportResult, download,
                   importFile, importResult, frame, savedPoses>>

\* useScene.ts:447-469  acceptRandomization (the Accept & Next button is
\* shown while savedPoses is set, part_001:188-196)
AcceptRandomization ==
    /\ pass.pc = "idle"
    /\ isRandomizeMode
    /\ savedPoses # NoPoses
    /\ Len(savedConditions) < MaxHistory
    /\ Len(timers) < MaxTimers
    /\ savedConditions' = savedConditions \o Snapshot(assets)
    /\ savedPoses' = NoPoses
    /\ Defer([assets |-> assets, spawnBounds |-> spawnBounds])
    /\ UNCHANGED <<assets, nextId, isRandomizeMode, spawnBounds, instruction,
                   notification, disk, io, exportArg, exportResult, download,
                   importFile, importResult, frame>>

\* The timer of an acceptance fires: randomizeNonStaticAssets of the render
\* in which acceptRandomization was made.
TimerFires ==
    /\ pass.pc = "idle"
    /\ timers # <<>>
    /\ StartPass(Head(timers), "timer")
    /\ timers' = Tail(timers)
    /\ UNCHANGED <<assets, savedConditions, nextId, isRandomizeMode, spawnBounds,
                   instruction, notification, disk, io, exportArg, exportResult,
                   download, importFile, importResult, frame>>

\* useScene.ts:471-473  clearSavedConditions (the Clear button is shown in
\* randomize mode while the history is not empty, part_001:175-179)
ClearSavedConditions ==
    /\ pass.pc = "idle"
    /\ isRandomizeMode
    /\ Len(savedConditions) > 0
    /\ savedConditions' = <<>>
    /\ UNCHANGED <<assets, nextId, isRandomizeMode, savedPoses, timers>>
    /\ PanelRest

\* Toolbar.tsx:106-118  handleLoadDroid: the robot is loaded locked and
\* excluded from export, and added (useScene.ts:98-107)
HandleLoadDroid ==
    /\ pass.pc = "idle"
    /\ nextId <= Len(PanelScene) + MaxAdded
    /\ assets' = Append(assets, PlacedAsset(nextId, NameGhost, <<0, 0, 0>>, FALSE, TRUE))
    /\ nextId' = nextId + 1
    /\ UNCHANGED <<savedConditions, isRandomizeMode, savedPoses, timers>>
    /\ PanelRest

\* AssetPanel (part_000:28-37) and useScene.ts:109-122  removeAsset
RemoveAsset(id) ==
    /\ pass.pc = "idle"
    /\ ~isRandomizeMode
    /\ \E k \in DOMAIN assets : assets[k].id = id /\ ~assets[k].locked
    /\ assets' = SelectSeq(assets, LAMBDA a : a.id # id)
    /\ UNCHANGED <<savedConditions, nextId, isRandomizeMode, savedPoses, timers>>
    /\ PanelRest

\* InstructionPanel.tsx:166-171 and useScene.ts:151-160  toggleAssetGravity
\* of the selected object (nothing is selected in randomize mode, and a
\* locked object is not selectable, part_000:20-25)
ToggleAssetGravity(id) ==
    /\ pass.pc = "idle"
    /\ ~isRandomizeMode
    /\ \E k \in DOMAIN assets : assets[k].id = id /\ ~assets[k].locked
    /\ assets' = [k \in DOMAIN assets |->
                    IF assets[k].id = id
                    THEN [assets[k] EXCEPT !.disableGravity = ~@]
                    ELSE assets[k]]
    /\ UNCHANGED <<savedConditions, nextId, isRandomizeMode, savedPoses, timers>>
    /\ PanelRest

\* An archive saved earlier: a manifest of one static object and a pose
\* document of two conditions for it.
SavedArchive ==
    [kind |-> "zip",
     sceneJson |-> [kind |-> "json", version |-> 1,
                    assets |-> <<AssetConfig(41, NameHash,
                                    [position |-> <<0, 20, 0>>,
                                     rotation |-> <<0, 6, 0>>,
                                     scale |-> <<1, 1, 1>>], TRUE)>>],
     sceneUsda |-> Absent,
     initialConditions |-> [kind |-> "json", instruction |-> <<>>,
                            poses |-> <<(NameUnder :> PoseA), (NameUnder :> PoseB)>>],
     entries |-> <<PayloadFile(NameHash, <<>>, FileUsd)>>]

SceneInit ==
    /\ assets = PanelScene
    /\ disk = {SavedArchive}
    /\ savedConditions = <<>>
    /\ instruction = "pick up the box"
    /\ notification = ""
    /\ nextId = Len(assets) + 1
    /\ io = "idle"
    /\ exportArg = <<>>
    /\ exportResult = NoResult
    /\ download = NoArchive
    /\ importFile = NoArchive
    /\ importResult = NoResult
    /\ frame = NoFrame
    /\ PlaceInit

SceneNext ==
    \/ EnterRandomizeMode
    \/ ExitRandomizeMode
    \/ RandomizeNonStaticAssets
    \/ \E draw \in SceneDraws : PassAttemptWith(draw)
    \/ PassNextAsset
    \/ PassReturn
    \/ AcceptRandomization
    \/ TimerFires
    \/ ClearSavedConditions
    \/ HandleLoadDroid
    \/ \E id \in PanelIds : RemoveAsset(id)
    \/ \E id \in PanelIds : ToggleAssetGravity(id)
    \/ \E file \in disk : HandleImportSelect(file)

SpecScene == SceneInit /\ [][SceneNext]_vars

(* ---------------------------------------------------------------------- *)
(* Properties                                                              *)
(* ---------------------------------------------------------------------- *)

ExportRan == exportResult # NoResult

ExportSucceeded == ExportRan /\ exportResult.success

\* The positions in exportArg of the objects an export writes.
ExportedIdx == {i \in DOMAIN exportArg : ~exportArg[i].excludeFromExport}

ExcludedIdx == {i \in DOMAIN exportArg : exportArg[i].excludeFromExport}

\* The object blocks of the exported description (the root block is first).
ObjectBlocks ==
    {download.sceneUsda.blocks[b] : b \in 2..Len(download.sceneUsda.blocks)}

SumSq(q) == q[1] * q[1] + q[2] * q[2] + q[3] * q[3] + q[4] * q[4]

\* C1: importing the archive an export has just written gives back every
\* exported object with its name, position, orientation, scale and static
\* flag, whatever the names are (names that sanitize alike, the name World).
C1_RoundTrip ==
    (io = "imported" /\ ExportSucceeded /\ importFile = download) =>
        /\ importResult.status = "resolved"
        /\ \A i \in ExportedIdx :
              \E j \in DOMAIN importResult.assets :
                  LET a == exportArg[i]
                      r == importResult.assets[j]
                  IN  /\ r.name = a.name
                      /\ r.position = a.position
                      /\ r.orientation = a.orientation
                      /\ r.scale = a.scale
                      /\ r.disableGravity = a.disableGravity

\* C2: the position mapping of the export and the position mappings of the
\* import (description block and pose entry) undo each other in both orders.
C2_PositionInverse ==
    (frame.pc = "done" /\ frame.op \in {"translate", "pose-position"}) =>
        frame.out = frame.in

C2_Witness ==
    /\ frame.pc = "done" /\ frame.op = "translate" /\ frame.fwd
    /\ frame.in = <<1, -2, 2>>
    /\ frame.mid = TextTuple(<<1, -2, -2>>)
    /\ frame.out = <<1, -2, 2>>

\* C3: the quaternion remapping of the export and the remappings of the import
\* (orient field and pose entry) undo each other in both orders, and the
\* import remapping keeps the sum of the squares of the four components.
C3_QuaternionInverse ==
    (frame.pc = "done" /\ frame.op \in {"orient", "pose-quaternion"}) =>
        LET exported == IF frame.fwd THEN frame.mid ELSE frame.in
            imported == IF frame.fwd THEN frame.out ELSE frame.mid
            read     == IF frame.op = "orient"
                        THEN [k \in 1..4 |-> parseFloat(exported[k])]
                        ELSE SubSeq(exported, 4, 7)
        IN  /\ frame.out = frame.in
            /\ SumSq(imported) = SumSq(read)

C3_Witness ==
    /\ frame.pc = "done" /\ frame.op = "orient" /\ ~frame.fwd
    /\ frame.in = TextTuple(<<2, 1, -2, 1>>)
    /\ frame.mid = <<1, 1, 2, 2>>
    /\ frame.out = frame.in

\* C4: an export of a scene in which no exportable object is static fails,
\* also when the only static objects are excluded from the export: the result
\* is success = false with a non-empty error, which the toolbar shows, and no
\* archive is generated or downloaded.
C4_NoStaticFails ==
    (ExportRan /\ ~(\E i \in ExportedIdx : exportArg[i].disableGravity)) =>
        /\ exportResult.success = FALSE
        /\ exportResult.error # ""
        /\ notification = exportResult.error
        /\ download = NoArchive
        /\ disk \subseteq UserArchives

C4_Witness ==
    /\ ExportRan
    /\ \E i \in ExcludedIdx : exportArg[i].disableGravity
    /\ \E i \in ExportedIdx : ~exportArg[i].disableGravity
    /\ ~(\E i \in ExportedIdx : exportArg[i].disableGravity)
    /\ exportResult.success = FALSE
    /\ download = NoArchive

\* C5: an export with an empty or whitespace-only instruction fails and
\* produces no archive, even with a static exportable object in the scene; an
\* export with a non-blank instruction and a static exportable object succeeds.
C5_InstructionRequired ==
    io = "exported" =>
        /\ IsBlank(instruction) =>
              (exportResult.success = FALSE /\ download = NoArchive)
        /\ (~IsBlank(instruction) /\
            \E i \in ExportedIdx : exportArg[i].disableGravity) =>
              exportResult.success

\* C6 as stated: no block of an exported description carries the name of an
\* excluded object (as identifier or as geometry reference) and no entry of
\* the archive lies under assets/<its name>/.
C6_ExcludedNameAbsent ==
    ExportSucceeded =>
        \A i \in ExcludedIdx :
            /\ \A b \in ObjectBlocks :
                  /\ b.name # usdNameExport(exportArg[i].name)
                  /\ b.references.asset # exportArg[i].name
            /\ \A e \in DOMAIN download.entries :
                  download.entries[e].asset # exportArg[i].name

\* C6 (amended): an excluded object adds nothing to an exported archive: the
\* description holds one block per exportable object, in scene order, and a
\* block identifier, a geometry reference or a folder below assets/ carries
\* the name of an excluded object only when an exportable object of the scene
\* has the same (sanitized) name.
C6_ExcludedAddsNothing ==
    ExportSucceeded =>
        /\ Len(download.sceneUsda.blocks) = 1 + Cardinality(ExportedIdx)
        /\ \A b \in ObjectBlocks :
              \E i \in ExportedIdx :
                  /\ b.name = usdNameExport(exportArg[i].name)
                  /\ b.references.asset = exportArg[i].name
        /\ \A e \in DOMAIN download.entries :
              \E i \in ExportedIdx :
                  download.entries[e].asset = exportArg[i].name
        /\ \A i \in ExcludedIdx :
              /\ (\A k \in ExportedIdx : usdNameExport(exportArg[k].name) #
                                         usdNameExport(exportArg[i].name)) =>
                    \A b \in ObjectBlocks :
                        b.name # usdNameExport(exportArg[i].name)
              /\ (\A k \in ExportedIdx : exportArg[k].name # exportArg[i].name) =>
                    /\ \A b \in ObjectBlocks :
                          b.references.asset # exportArg[i].name
                    /\ \A e \in DOMAIN download.entries :
                          download.entries[e].asset # exportArg[i].name

C6_Witness ==
    /\ ExportSucceeded
    /\ \E i \in ExcludedIdx :
          /\ exportArg[i].disableGravity
          /\ \A k \in ExportedIdx : usdNameExport(exportArg[k].name) #
                                    usdNameExport(exportArg[i].name)
    /\ Len(download.sceneUsda.blocks) = 2
    /\ Len(download.entries) > 0

\* C7: the archive of a successful export holds scene.usda, scene.json with
\* one entry per exportable object (id, name, main file, live-frame transform
\* and static flag) and initial_conditions.json.
C7_BundleFiles ==
    ExportSucceeded =>
        /\ download.sceneUsda.kind = "usda"
        /\ download.sceneJson.kind = "json"
        /\ "assets" \in DOMAIN download.sceneJson
        /\ Len(download.sceneJson.assets) = Cardinality(ExportedIdx)
        /\ \A i \in ExportedIdx :
              \E k \in DOMAIN download.sceneJson.assets :
                  LET a == exportArg[i]
                      c == download.sceneJson.assets[k]
                  IN  /\ c.id = a.id
                      /\ c.name = a.name
                      /\ c.mainFile = a.mainFile
                      /\ c.position = a.position
                      /\ c.rotation = rotationOf(a.orientation)
                      /\ c.scale = a.scale
                      /\ c.disableGravity = a.disableGravity
        /\ download.initialConditions.kind = "json"

\* C8: with no accepted condition the pose document of an export holds one
\* entry, mapping every dynamic exportable object (by sanitized name) to its
\* live position in the export frame; with accepted conditions it holds one
\* entry per condition, in order.
C8_PoseDocument ==
    (io = "exported" /\ ExportSucceeded) =>
        LET doc == download.initialConditions
            dyn == {i \in ExportedIdx : ~exportArg[i].disableGravity}
        IN  /\ doc.kind = "json"
            /\ "poses" \in DOMAIN doc
            /\ IF savedConditions = <<>>
               THEN /\ Len(doc.poses) = 1
                    /\ DOMAIN doc.poses[1] =
                          {usdNameExport(exportArg[i].name) : i \in dyn}
                    /\ \A i \in dyn :
                          SubSeq(doc.poses[1][usdNameExport(exportArg[i].name)], 1, 3)
                              = ExportTranslate(exportArg[i].position)
               ELSE Len(doc.poses) = Len(savedConditions)

\* What the legacy path is to return for an archive: objects named after
\* folders below assets/, each with the transform of the last block that has
\* its sanitized name (the root block World apart), else the loader's default.
LegacyShape(zip, res) ==
    LET blocks  == IF zip.sceneUsda.kind = "usda"
                   THEN zip.sceneUsda.blocks ELSE <<>>
        folders == {zip.entries[e].asset : e \in DOMAIN zip.entries}
    IN  \A j \in DOMAIN res.assets :
            LET r    == res.assets[j]
                u    == usdNameLegacy(r.name)
                hits == {b \in DOMAIN blocks :
                            blocks[b].name = u /\ u # NameWorld}
            IN  /\ r.name \in folders
                /\ IF hits = {}
                   THEN /\ r.position = <<0, 0, 0>>
                        /\ r.scale = <<1, 1, 1>>
                        /\ r.disableGravity = FALSE
                   ELSE LET b == blocks[CHOOSE h \in hits : \A g \in hits : g <= h]
                        IN  /\ r.disableGravity = (b.kinematicEnabled = "true")
                            /\ r.position =
                                  IF b.translate = <<>> THEN <<0, 0, 0>>
                                  ELSE <<parseFloat(b.translate[1]),
                                         parseFloat(b.translate[3]),
                                         0 - parseFloat(b.translate[2])>>

\* C9: an import of an archive without scene.json does not fail but takes
\* the legacy path (objects from the folders below assets/, transforms from
\* scene.usda); an import is rejected only when scene.json is present and
\* cannot be read, and then it returns no objects and the scene is unchanged.
C9_LegacyFallback ==
    [][(io # "imported" /\ io' = "imported") =>
          /\ importFile'.sceneJson.kind = "absent" =>
                /\ importResult'.status = "resolved"
                /\ LegacyShape(importFile', importResult')
                /\ assets' = assets \o importResult'.assets
          /\ importResult'.status = "rejected" =>
                /\ importFile'.sceneJson.kind # "absent"
                /\ \/ importFile'.sceneJson.kind = "badjson"
                   \/ "assets" \notin DOMAIN importFile'.sceneJson
                /\ importResult'.assets = <<>>
                /\ assets' = assets
                /\ savedConditions' = savedConditions
          /\ importFile'.sceneJson.kind = "badjson" =>
                importResult'.status = "rejected"]_vars

C9_Witness ==
    /\ io = "imported"
    /\ importFile.sceneJson.kind = "absent"
    /\ importFile.sceneUsda.kind = "usda"
    /\ importResult.status = "resolved"
    /\ \E j \in DOMAIN importResult.assets :
          /\ importResult.assets[j].position = <<4, 6, 5>>
          /\ importResult.assets[j].disableGravity
    /\ Len(assets) = Len(importResult.assets) + 1

\* C10: when a pose document is loaded, an entry whose name matches no
\* imported object (by sanitized name) is dropped and the other entries of the
\* condition are kept; every id of an imported snapshot is the id of an object
\* of the same import; a condition with no matching entry is not added.
C10_PartialMatch ==
    (/\ io = "imported"
     /\ importResult.status = "resolved"
     /\ importFile.initialConditions.kind = "json"
     /\ "poses" \in DOMAIN importFile.initialConditions) =>
        LET doc        == importFile.initialConditions
            res        == importResult
            ids        == {res.assets[j].id : j \in DOMAIN res.assets}
            matched(k) == {u \in DOMAIN doc.poses[k] :
                              \E j \in DOMAIN res.assets :
                                  usdNamePose(res.assets[j].name) = u}
            keptIdx    == {k \in DOMAIN doc.poses : matched(k) # {}}
            rank(k)    == Cardinality({m \in keptIdx : m <= k})
        IN  /\ Len(res.savedConditions) = Cardinality(keptIdx)
            /\ \A m \in DOMAIN res.savedConditions :
                  /\ DOMAIN res.savedConditions[m].poses # {}
                  /\ DOMAIN res.savedConditions[m].poses \subseteq ids
            /\ \A k \in keptIdx :
                  LET c == res.savedConditions[rank(k)].poses
                  IN  /\ Cardinality(DOMAIN c) = Cardinality(matched(k))
                      /\ \A u \in matched(k) :
                            \E j \in DOMAIN res.assets :
                                /\ usdNamePose(res.assets[j].name) = u
                                /\ res.assets[j].id \in DOMAIN c
                                /\ c[res.assets[j].id].position =
                                      <<doc.poses[k][u][1], doc.poses[k][u][3],
                                        0 - doc.poses[k][u][2]>>

C10_Witness ==
    /\ io = "imported"
    /\ importResult.status = "resolved"
    /\ importFile.initialConditions.kind = "json"
    /\ "poses" \in DOMAIN importFile.initialConditions
    /\ Len(importFile.initialConditions.poses) = 3
    /\ Len(importResult.savedConditions) = 2
    /\ Cardinality(DOMAIN importFile.initialConditions.poses[1]) = 2
    /\ Cardinality(DOMAIN importResult.savedConditions[1].poses) = 1
    /\ savedConditions = importResult.savedConditions

\* The characters the pattern [^a-zA-Z0-9_] keeps, among those of NameChars
\* and NameTable.
KeptChars == {"T", "a", "b", "l", "e", "1", "_"}

\* C11: sanitizing replaces every character outside [A-Za-z0-9_] by one '_'
\* and keeps every other character ("Table #1" gives "Table__1"), and the
\* three places that sanitize (export's block identifier, the legacy import's
\* lookup, the pose import's matching) give the same identifier for a name.
C11_SanitizeAgrees ==
    (frame.pc = "name" /\ frame.done = {"export", "legacy", "pose"}) =>
        /\ Len(frame.exported) = Len(frame.name)
        /\ \A i \in DOMAIN frame.name :
              frame.exported[i] = IF frame.name[i] \in KeptChars
                                  THEN frame.name[i] ELSE "_"
        /\ frame.legacy = frame.exported
        /\ frame.pose = frame.exported
        /\ frame.name = NameTable =>
              frame.exported = <<"T","a","b","l","e","_","_","1">>

C11_Witness ==
    /\ frame.pc = "name" /\ frame.done = {"export", "legacy", "pose"}
    /\ frame.name = NameTable
    /\ frame.exported = <<"T","a","b","l","e","_","_","1">>
    /\ frame.legacy = frame.exported
    /\ frame.pose = frame.exported

(* ---- the placement pass ---- *)

\* A shrunk range with room on every axis.
NonDegenerate(v) ==
    v.validMinX < v.validMaxX /\ v.validMinY < v.validMaxY /\ v.validMinZ < v.validMaxZ

\* A shrunk range with min > max on some axis.
Inverted(v) ==
    v.validMinX > v.validMaxX \/ v.validMinY > v.validMaxY \/ v.validMinZ > v.validMaxZ

\* A live-frame box inside a spawn volume (x, up = volume Z, depth = -volume Y).
Contained(box, bounds) ==
    /\ bounds.minX <= box.min[1] /\ box.max[1] <= bounds.maxX
    /\ bounds.minZ <= box.min[2] /\ box.max[2] <= bounds.maxZ
    /\ 0 - bounds.maxY <= box.min[3] /\ box.max[3] <= 0 - bounds.minY

\* Two boxes with a point in common.
Intersect(b1, b2) ==
    \A k \in 1..3 : b1.min[k] <= b2.max[k] /\ b2.min[k] <= b1.max[k]

C13_PlacementDisjoint ==
    \A j \in DOMAIN pass.log : \A k \in DOMAIN pass.log :
        (j < k /\ pass.log[j].placed /\ pass.log[k].placed)
            => ~Intersect(pass.placedBoxes[j], pass.placedBoxes[k])

\* Two accepted objects, the second on its second attempt.
C13_Witness ==
    /\ pass.pc = "done"
    /\ \E j \in DOMAIN pass.log : \E k \in DOMAIN pass.log :
          /\ j < k /\ pass.log[j].placed /\ pass.log[k].placed
          /\ pass.log[k].attempts = 2

\* C19: an object of a pass is treated as not fitting exactly when its
\* shrunk range is inverted on some axis (a range with min = max still fits).
C19_FitsUnlessInverted ==
    \A k \in DOMAIN pass.log :
        (~pass.log[k].fits) <=> Inverted(pass.log[k].range)

\* The centre of a spawn volume, live frame.
CentreOf(bounds) ==
    <<Half(bounds.minX + bounds.maxX), Half(bounds.minZ + bounds.maxZ),
      0 - Half(bounds.minY + bounds.maxY)>>

\* The object of the current attempt, as the scene shows it after the step.
AttemptedAfter ==
    assets'[CHOOSE k \in DOMAIN assets' : assets'[k].id = pass.dyn[pass.i].id]

\* C20: an attempt for an object that does not fit (its shrunk range is
\* inverted on some axis) puts it at the centre of the volume, (cx, cz, -cy),
\* and is accepted exactly when its box intersects no box recorded so far in
\* the pass, contained or not.
C20_NotFittingAtCentre ==
    [][(/\ pass.pc = "loop" /\ pass'.pc = "loop"
        /\ pass'.attempt = pass.attempt + 1
        /\ Inverted(ValidRange(pass.dyn[pass.i], pass.bounds)))
       => /\ AttemptedAfter.position = CentreOf(pass.bounds)
          /\ pass'.dyn[pass.i].position = CentreOf(pass.bounds)
          /\ pass'.placed <=>
                ~\E k \in DOMAIN pass.placedBoxes :
                    Intersect(BoxOf(AttemptedAfter, AttemptedAfter.position,
                                    AttemptedAfter.orientation.v[2]),
                              pass.placedBoxes[k])]_vars

\* An object whose range is inverted, accepted with a box that is not within
\* the volume, after another object was recorded.
C20_Witness ==
    /\ pass.pc = "done"
    /\ \E k \in DOMAIN pass.log :
          /\ k > 1
          /\ pass.log[k].placed /\ Inverted(pass.log[k].range)
          /\ ~Contained(pass.placedBoxes[k], pass.bounds)

(* ---- failures ---- *)

\* A manifest that is there and cannot be read as a manifest.
UnreadableManifest(zip) ==
    \/ zip.sceneJson.kind = "badjson"
    \/ zip.sceneJson.kind = "json" /\ "assets" \notin DOMAIN zip.sceneJson

\* C17: an export that fails and an import of an archive whose manifest
\* cannot be read leave the objects, the condition history and the
\* instruction as they were.
C17_FailureLeavesScene ==
    [][(\/ io' = "exported" /\ ~exportResult'.success
        \/ io' = "imported" /\ UnreadableManifest(importFile'))
       => /\ assets' = assets
          /\ savedConditions' = savedConditions
          /\ instruction' = instruction]_vars

\* A failed export followed by an import of an archive with an unreadable
\* manifest, a payload and a pose document that names its objects.
C17_Witness ==
    /\ io = "imported"
    /\ UnreadableManifest(importFile)
    /\ importResult.status = "rejected"
    /\ importFile.initialConditions.kind = "json"
    /\ "poses" \in DOMAIN importFile.initialConditions
    /\ ExportRan /\ ~exportResult.success
    /\ Len(assets) > 0

(* ---- the orientation of a legacy import ---- *)

\* The blocks of a description document that describe the object `name`.
BlocksOf(zip, name) ==
    IF zip.sceneUsda.kind # "usda" \/ usdNameLegacy(name) = NameWorld THEN {}
    ELSE {b \in DOMAIN zip.sceneUsda.blocks :
             zip.sceneUsda.blocks[b].name = usdNameLegacy(name)}

\* The orientation a block asks for: the quaternion (w, x, y, z) mapped to
\* (x, z, -y, w) when there is one, else the Euler triple in degrees mapped to
\* (x, z, -y) in units of pi/PiUnits, else the loader's.
OrientationAskedBy(b) ==
    IF b.orient # <<>>
    THEN [kind |-> "quat",
          v |-> <<parseFloat(b.orient[2]), parseFloat(b.orient[4]),
                  0 - parseFloat(b.orient[3]), parseFloat(b.orient[1])>>]
    ELSE IF b.rotateXYZ # <<>>
    THEN [kind |-> "euler",
          v |-> <<(parseFloat(b.rotateXYZ[1]) * PiUnits) \div 180,
                  (parseFloat(b.rotateXYZ[3]) * PiUnits) \div 180,
                  0 - ((parseFloat(b.rotateXYZ[2]) * PiUnits) \div 180)>>]
    ELSE [kind |-> "euler", v |-> <<0, 0, 0>>]

\* C18: on the legacy path an object's orientation is the quaternion of its
\* block when the block has one, whether or not it also has an Euler triple;
\* the Euler triple is used only without a quaternion; with neither, or with
\* no block, the loader's orientation is kept.
C18_QuaternionFirst ==
    (/\ io = "imported"
     /\ importResult.status = "resolved"
     /\ importFile.sceneJson.kind = "absent") =>
        \A j \in DOMAIN importResult.assets :
            LET r    == importResult.assets[j]
                hits == BlocksOf(importFile, r.name)
            IN  IF hits = {}
                THEN r.orientation = [kind |-> "euler", v |-> <<0, 0, 0>>]
                ELSE r.orientation =
                        OrientationAskedBy(importFile.sceneUsda.blocks[
                            CHOOSE h \in hits : \A g \in hits : g <= h])

\* An imported object whose block holds both a quaternion and an Euler triple.
C18_Witness ==
    /\ io = "imported"
    /\ importResult.status = "resolved"
    /\ importFile.sceneJson.kind = "absent"
    /\ \E j \in DOMAIN importResult.assets :
          \E h \in BlocksOf(importFile, importResult.assets[j].name) :
              /\ importFile.sceneUsda.blocks[h].orient # <<>>
              /\ importFile.sceneUsda.blocks[h].rotateXYZ # <<>>
              /\ importResult.assets[j].orientation.kind = "quat"

(* ---- the condition history ---- *)

\* The ids of the objects of the scene that are movable.
MovableIds ==
    {assets[k].id : k \in {j \in DOMAIN assets :
                              /\ ~assets[j].locked
                              /\ ~assets[j].excludeFromExport
                              /\ ~assets[j].disableGravity}}

\* The object of the scene with an id.
AssetById(id) == assets[CHOOSE k \in DOMAIN assets : assets[k].id = id]

\* A step of acceptRandomization: a pass is put off to a timer.
AcceptStep == Len(timers') = Len(timers) + 1

\* C14: acceptRandomization on a scene with a movable object appends exactly
\* one snapshot at the end of the history, whose keys are the ids of the
\* movable objects (not locked, not excluded, gravity enabled) and whose
\* values are their position and orientation at the call; with no movable
\* object the history is unchanged.
C14_AcceptAppendsSnapshot ==
    [][AcceptStep =>
          IF MovableIds = {}
          THEN savedConditions' = savedConditions
          ELSE /\ Len(savedConditions') = Len(savedConditions) + 1
               /\ SubSeq(savedConditions', 1, Len(savedConditions)) = savedConditions
               /\ LET poses == savedConditions'[Len(savedConditions')].poses
                  IN  /\ DOMAIN poses = MovableIds
                      /\ \A id \in MovableIds :
                            /\ poses[id].position = AssetById(id).position
                            /\ poses[id].quaternion =
                                  YawQuaternion(AssetById(id).orientation.v[2])]_vars

\* Two accepted snapshots of a scene that also holds a static object and the
\* locked robot; the second snapshot differs from the first.
C14_Witness ==
    /\ Len(savedConditions) = 2
    /\ io = "idle"
    /\ \E k \in DOMAIN assets : assets[k].locked
    /\ \E k \in DOMAIN assets : assets[k].disableGravity /\ ~assets[k].locked
    /\ savedConditions[1] # savedConditions[2]
    /\ DOMAIN savedConditions[2].poses = MovableIds
    /\ timers # <<>>

\* C15: the snapshot of an acceptance is in the history, with the poses shown
\* at the acceptance, in the step that puts the next pass off to a timer; no
\* pass starts or moves an object in that step; a pass started by a timer
\* takes that timer from the queue; and no step of a pass changes the history.
C15_SnapshotBeforePass ==
    [][/\ (Len(savedConditions') = Len(savedConditions) + 1 /\ io' = io) =>
             /\ pass.pc = "idle" /\ pass' = pass
             /\ assets' = assets
             /\ Len(timers') = Len(timers) + 1
             /\ LET poses == savedConditions'[Len(savedConditions')].poses
                IN  \A id \in DOMAIN poses :
                       /\ id \in MovableIds
                       /\ poses[id].position = AssetById(id).position
                       /\ poses[id].quaternion =
                             YawQuaternion(AssetById(id).orientation.v[2])
       /\ (pass' # pass) => savedConditions' = savedConditions
       /\ (pass' # pass /\ pass'.pc = "loop" /\ pass.pc = "idle"
              /\ pass'.trigger = "timer") =>
             /\ timers # <<>>
             /\ timers' = Tail(timers)]_vars

\* The pass of a timer has ended and has turned the object away from the pose
\* its acceptance stored.
C15_Witness ==
    /\ pass.pc = "done" /\ pass.trigger = "timer"
    /\ io = "idle"
    /\ Len(savedConditions) > 0
    /\ \E id \in DOMAIN savedConditions[Len(savedConditions)].poses :
          /\ id \in MovableIds
          /\ savedConditions[Len(savedConditions)].poses[id].quaternion #
                YawQuaternion(AssetById(id).orientation.v[2])

\* Whether one history begins with another.
IsPrefix(h1, h2) ==
    Len(h1) <= Len(h2) /\ SubSeq(h2, 1, Len(h1)) = h1

\* C16: over every operation the condition history either keeps every entry
\* it has, unchanged and in order (an entry may be added at the end), or is
\* emptied: no entry is changed, removed singly, replaced or reordered.
C16_AppendOrClear ==
    [][savedConditions' = <<>> \/ IsPrefix(savedConditions, savedConditions')]_vars

(* ---- the shape of a pass ---- *)

\* The ids of the movable objects of the scene, in list order.
MovableInOrder ==
    LET keep == SelectSeq(assets, LAMBDA a : ~a.locked /\ ~a.excludeFromExport
                                             /\ ~a.disableGravity)
    IN  [k \in DOMAIN keep |-> keep[k].id]

\* The ids of the objects of a pass, in its order.
PassIds(p) == [k \in DOMAIN p.dyn |-> p.dyn[k].id]

\* How far a pass has come: objects done, then attempts made on the current
\* one.
PassProgress ==
    IF pass.pc = "done" THEN (Len(pass.dyn) + 1) * (maxAttempts + 1)
    ELSE pass.i * (maxAttempts + 1) + pass.attempt

\* A pass starts on the movable objects of the list, in list order, with no
\* box recorded.
PassStartShape ==
    (pass.pc = "idle" /\ pass'.pc = "loop") =>
        /\ PassIds(pass') = MovableInOrder
        /\ pass'.i = 1 /\ pass'.attempt = 0
        /\ pass'.placedBoxes = <<>> /\ pass'.log = <<>>

\* A step of a running pass: it brings the pass nearer its end; an attempt is
\* made only while fewer than maxAttempts were made, against the boxes of the
\* objects before the current one, and moves the current object only; a box,
\* once recorded, stays; the box recorded for an object is the box of that
\* object as the step leaves it.
PassStepShape ==
    pass.pc = "loop" =>
        /\ pass'.pc \in {"loop", "done"}
        /\ PassProgress' > PassProgress
        /\ PassProgress' <= (Len(pass.dyn) + 1) * (maxAttempts + 1)
        /\ pass'.attempt <= maxAttempts
        /\ PassIds(pass') = PassIds(pass)
        /\ Len(pass.placedBoxes) = pass.i - 1 + (IF pass.placed THEN 1 ELSE 0)
        /\ SubSeq(pass'.placedBoxes, 1, Len(pass.placedBoxes)) = pass.placedBoxes
        /\ Len(pass'.placedBoxes) <= Len(pass.placedBoxes) + 1
        /\ \A k \in DOMAIN assets :
              assets[k].id # pass.dyn[pass.i].id => assets'[k] = assets[k]
        /\ pass'.placedBoxes # pass.placedBoxes =>
              pass'.placedBoxes[Len(pass'.placedBoxes)] =
                  BoxOf(AttemptedAfter, AttemptedAfter.position,
                        AttemptedAfter.orientation.v[2])

\* The end of an object's loop: the object stays where its last attempt put
\* it, one box per object so far is recorded, and an object that was not
\* accepted has had maxAttempts attempts.
PassEndShape ==
    (pass.pc = "loop" /\ pass'.log # pass.log) =>
        /\ assets' = assets
        /\ Len(pass'.log) = Len(pass.log) + 1
        /\ Len(pass'.log) = pass.i
        /\ Len(pass'.placedBoxes) = pass.i
        /\ pass.attempt >= 1 /\ pass.attempt <= maxAttempts
        /\ ~pass.placed => pass.attempt = maxAttempts
        /\ pass'.log[pass.i].id = pass.dyn[pass.i].id
        /\ pass'.log[pass.i].position = AttemptedAfter.position
        /\ pass'.pc = "done" <=> pass.i = Len(pass.dyn)

\* C21: every pass ends (every step of a running pass brings it nearer its
\* end, and the number of steps to the end is bounded); it makes at most
\* maxAttempts attempts per movable object, an object whose attempts are used
\* up keeps its last attempt, one box is recorded per movable object in list
\* order, and an object is tested against the boxes of the objects before it
\* only.
C21_PassTerminates ==
    [][PassStartShape /\ PassStepShape /\ PassEndShape]_vars

\* A pass has ended with an accepted object and one that used all attempts.
C21_Witness ==
    /\ pass.pc = "done"
    /\ Len(pass.placedBoxes) = 2
    /\ pass.log[1].placed
    /\ ~pass.log[2].placed /\ pass.log[2].attempts = maxAttempts

(* ---- the poses before a pass ---- *)

\* The ids of the objects of the scene.
SceneIds == {assets[k].id : k \in DOMAIN assets}

\* The pose of the object `id` of the scene, as a snapshot holds it.
PoseNow(id) ==
    [position |-> AssetById(id).position,
     quaternion |-> YawQuaternion(AssetById(id).orientation.v[2])]

PassStep == \/ pass.pc \in {"loop", "done"}
            \/ pass.pc = "idle" /\ pass'.pc = "loop"

\* The object at place k is not movable: locked, excluded or static.
Immovable(k) ==
    assets[k].locked \/ assets[k].excludeFromExport \/ assets[k].disableGravity

\* Everything of the object at place k but its position and orientation.
KeepsAllButPose(k) ==
    assets'[k] = [assets[k] EXCEPT !.position = assets'[k].position,
                                   !.orientation = assets'[k].orientation]

\* C23: a step of a pass changes the position and orientation of movable
\* objects only: the object list keeps its objects, in order, with their
\* scale and flags, an object that is locked, excluded or static keeps its
\* transform, and the spawn volume, the condition history and the
\* instruction are unchanged.
C23_PassFrame ==
    [][PassStep =>
          /\ Len(assets') = Len(assets)
          /\ \A k \in DOMAIN assets :
                /\ KeepsAllButPose(k)
                /\ Immovable(k) => assets'[k] = assets[k]
          /\ spawnBounds' = spawnBounds
          /\ savedConditions' = savedConditions
          /\ instruction' = instruction]_vars

(* ---- the pose document ---- *)

\* The keys of a pose entry that name a loaded object.
NamedIn(poseData, loaded) ==
    {key \in DOMAIN poseData :
        \E i \in DOMAIN loaded : usdNamePose(loaded[i].name) = key}

\* The first loaded object a key names.
FirstNamed(key, loaded) ==
    loaded[CHOOSE i \in DOMAIN loaded :
              /\ usdNamePose(loaded[i].name) = key
              /\ \A j \in 1..(i - 1) : usdNamePose(loaded[j].name) # key]

\* The snapshot holds, for each key of the entry that names a loaded object,
\* the entry's values under the id of that object, turned into the live frame.
HoldsEntry(snapshot, poseData, loaded) ==
    /\ DOMAIN snapshot.poses =
          {FirstNamed(key, loaded).id : key \in NamedIn(poseData, loaded)}
    /\ \A key \in NamedIn(poseData, loaded) :
          LET v == poseData[key]
              p == snapshot.poses[FirstNamed(key, loaded).id]
          IN  /\ p.position = <<v[1], v[3], 0 - v[2]>>
              /\ p.quaternion = <<v[4], v[6], 0 - v[5], v[7]>>

\* The conditions are the entries of the list that name a loaded object, in
\* the order of the list.
HoldsEntries(conds, list, loaded) ==
    LET kept == {k \in DOMAIN list : NamedIn(list[k], loaded) # {}}
        nth(n) == CHOOSE k \in kept : Cardinality({m \in kept : m < k}) = n - 1
    IN  /\ Len(conds) = Cardinality(kept)
        /\ \A n \in DOMAIN conds : HoldsEntry(conds[n], list[nth(n)], loaded)

\* C24: after an import that resolved, the conditions of the result are the
\* entries of the pose document that name an imported object, in document
\* order, each value [x,y,z,qx,qy,qz,qw] stored under the object's id as
\* position (x, z, -y) and quaternion (qx, qz, -qy, qw), and the instruction
\* is the document's, or "" when it has none; a document that is absent, is
\* not JSON or has no pose list gives no conditions and "", and the objects
\* are those the archive gives without it.
C24_PoseDocument ==
    (io = "imported" /\ importResult.status = "resolved") =>
        LET f == importFile.initialConditions
            bare == [importFile EXCEPT !.initialConditions = Absent]
        IN  /\ importResult.assets =
                  importScene(bare, nextId - Len(importResult.assets)).assets
            /\ IF f.kind = "json" /\ "poses" \in DOMAIN f
               THEN /\ HoldsEntries(importResult.savedConditions, f.poses,
                                    importResult.assets)
                    /\ importResult.instruction =
                          IF f.instruction = <<>> THEN "" ELSE f.instruction[1]
               ELSE /\ importResult.savedConditions = <<>>
                    /\ importResult.instruction = ""

\* An import gave two conditions from a document of three entries, the
\* second of them holding two objects.
C24_Witness ==
    /\ io = "imported" /\ importResult.status = "resolved"
    /\ importFile.initialConditions.kind = "json"
    /\ "poses" \in DOMAIN importFile.initialConditions
    /\ Len(importFile.initialConditions.poses) = 3
    /\ Len(importResult.savedConditions) = 2
    /\ Cardinality(DOMAIN importResult.savedConditions[2].poses) = 2
    /\ importResult.instruction # ""

(* ---------------------------------------------------------------------- *)
(* An export suspended in archive generation                                *)
(* ---------------------------------------------------------------------- *)

\* The layouts of a file map: the main file at the top of the object's
\* folder, in a sub-folder of it, or under a key with no folder part.
FileLayouts == {"top", "nested", "bare"}

\* importScene.ts:409-478  the file map and main file loadFromFiles keeps for
\* a folder of the layout: the keys are the paths as given, the main file is
\* the first USD key, or else the first GLB key, wherever it lies
LaidOut(asset, layout) ==
    IF layout = "nested"
    THEN [asset EXCEPT
            !.files = <<[top |-> asset.name, dirs |-> <<>>, file |-> FilePng],
                        [top |-> asset.name, dirs |-> <<"geo">>, file |-> FileGlb]>>,
            !.mainFile = [top |-> asset.name, dirs |-> <<"geo">>, file |-> FileGlb],
            !.fileType = "glb"]
    ELSE IF layout = "bare"
    THEN [asset EXCEPT
            !.files = <<[top |-> <<>>, dirs |-> <<>>, file |-> FileUsd]>>,
            !.mainFile = [top |-> <<>>, dirs |-> <<>>, file |-> FileUsd]]
    ELSE asset

\* The scenes an export is started on: a Box and a second object, each with
\* either transform and either gravity flag, the second excluded or not and
\* of any layout.
ExportScenes ==
    {<<SceneAsset(1, NameBox, t1, g1, FALSE),
       LaidOut(SceneAsset(2, NameHash, t2, g2, e2), layout)>> :
        t1 \in SceneTransforms, t2 \in SceneTransforms,
        g1 \in BOOLEAN, g2 \in BOOLEAN, e2 \in BOOLEAN, layout \in FileLayouts}

\* The positions the transform gizmo drags an object to.
DragPositions == {<<0, 0, 0>>, <<3, 1, -1>>}

\* An archive generation that reads the scene when it settles.
generateAsyncLive(zip, liveAssets) == exportScene(liveAssets).zip

\* exportScene.ts:94  zip.generateAsync({ type: 'blob' }): the blob of the
\* entries added to the archive before the call, whatever the scene is when
\* the promise settles
generateAsync(zip, liveAssets) == zip

ExportInit ==
    /\ assets \in ExportScenes
    /\ disk = {}
    /\ savedConditions = <<>>
    /\ instruction = "pick up the box"
    /\ notification = ""
    /\ nextId = Len(assets) + 1
    /\ io = "idle"
    /\ exportArg = <<>>
    /\ exportResult = NoResult
    /\ download = NoArchive
    /\ importFile = NoArchive
    /\ importResult = NoResult
    /\ frame = NoFrame
    /\ PlaceInit

\* Toolbar.tsx:69-71 and exportScene.ts:9-94  handleExport up to the await of
\* generateAsync: the document and the entries are built; a refused export
\* returns before it
ExportBegin ==
    /\ pass.pc = "idle"
    /\ io = "idle"
    /\ Len(assets) # 0
    /\ LET result == exportScene(assets)
       IN  /\ exportArg' = assets
           /\ IF result.success
              THEN /\ exportResult' = [status |-> "pending", zip |-> result.zip]
                   /\ io' = "exporting"
                   /\ UNCHANGED notification
              ELSE /\ exportResult' = [success |-> FALSE, error |-> result.error]
                   /\ io' = "exported"
                   /\ notification' = result.error
    /\ UNCHANGED <<assets, savedConditions, instruction, nextId, disk, download,
                   importFile, importResult, frame>>
    /\ UNCHANGED placeVars

\* exportScene.ts:94-97  generateAsync settles: the blob is downloaded
ExportResolve ==
    /\ io = "exporting"
    /\ download' = generateAsync(exportResult.zip, assets)
    /\ disk' = disk \cup {download'}
    /\ exportResult' = [success |-> TRUE, error |-> ""]
    /\ io' = "exported"
    /\ UNCHANGED <<assets, savedConditions, instruction, notification, nextId,
                   exportArg, importFile, importResult, frame>>
    /\ UNCHANGED placeVars

\* SelectionManager (part_004:56-73): the transform gizmo moves the selected
\* object; a locked object cannot be selected (part_004:184)
DragSelected(id, position) ==
    /\ pass.pc = "idle"
    /\ ~isRandomizeMode
    /\ \E k \in DOMAIN assets :
          assets[k].id = id /\ ~assets[k].locked /\ assets[k].position # position
    /\ assets' = [k \in DOMAIN assets |->
                    IF assets[k].id = id
                    THEN [assets[k] EXCEPT !.position = position]
                    ELSE assets[k]]
    /\ UNCHANGED <<savedConditions, nextId, isRandomizeMode, savedPoses, timers>>
    /\ PanelRest

\* The scene is changed only while the export is suspended: changes before
\* the call are the scenes of ExportInit, changes after the download cannot
\* reach it.
ExportNext ==
    \/ ExportBegin
    \/ ExportResolve
    \/ io = "exporting" /\ \E id \in {1, 2} : ToggleAssetGravity(id)
    \/ io = "exporting" /\ \E id \in {1, 2} : RemoveAsset(id)
    \/ io = "exporting" /\ \E id \in {1, 2}, p \in DragPositions : DragSelected(id, p)
    \/ io = "exporting" /\ HandleLoadDroid

SpecExport == ExportInit /\ [][ExportNext]_vars

\* C25: the archive under generation, and the archive downloaded, are the
\* document and the payload entries of the object list as it was when
\* exportScene was called, whatever was toggled, dragged, removed or added
\* while generateAsync was pending.
C25_ExportOfCallTime ==
    /\ io = "exporting" => exportResult.zip = exportScene(exportArg).zip
    /\ (io = "exported" /\ exportResult.success) =>
          download = exportScene(exportArg).zip

\* An archive was downloaded after the scene changed under the pending
\* export: an export of the scene as it is now would have another document
\* and other payload entries.
C25_Witness ==
    /\ io = "exported" /\ exportResult.success
    /\ assets # exportArg
    /\ hasKinematicAsset(assets)
    /\ exportScene(assets).zip.sceneUsda # download.sceneUsda
    /\ exportScene(assets).zip.entries # download.entries

(* ---- randomize mode ---- *)

\* C26: a step of a pass moves an object only while randomize mode is on,
\* and savedPoses is null in every state in which the mode is off.
C26_PassOnlyInMode ==
    [][/\ (PassStep /\ assets' # assets) => isRandomizeMode
       /\ ~isRandomizeMode' => savedPoses' = NoPoses]_vars

\* The ids a snapshot of the history or the candidate poses are keyed by.
SnapshotIds ==
    UNION {DOMAIN savedConditions[n].poses : n \in DOMAIN savedConditions}
    \cup (IF savedPoses = NoPoses THEN {} ELSE DOMAIN savedPoses.poses)

\* C27: every id that keys a snapshot of savedConditions or savedPoses is
\* the id of an object of the object list.
C27_SnapshotIdsInScene == SnapshotIds \subseteq SceneIds

\* The objects of the list that are neither locked nor excluded.
Eligible == {k \in DOMAIN assets : ~assets[k].locked /\ ~assets[k].excludeFromExport}

\* C28: in every state in which randomize mode is on (the state it is
\* entered in and every later one) the objects that are neither locked nor
\* excluded hold at least one static and at least one dynamic object.
C28_ModeNeedsBoth ==
    isRandomizeMode =>
        /\ \E k \in Eligible : assets[k].disableGravity
        /\ \E k \in Eligible : ~assets[k].disableGravity

\* Randomize mode is on, objects were added to the scene and the history
\* is not empty.
C28_Witness ==
    /\ isRandomizeMode
    /\ Len(assets) > Len(PanelScene) + 1
    /\ Len(savedConditions) > 0

(* ---- one acceptance per candidate ---- *)

BuiltArchive == IF io = "exporting" THEN exportResult.zip ELSE download

\* The path assets/<object name>/<file> is the path of a payload file of
\* the archive.
WrittenAt(zip, name, file) ==
    \E n \in DOMAIN zip.entries :
        /\ ~zip.entries[n].dir
        /\ zip.entries[n].asset = name
        /\ zip.entries[n].dirs = <<>>
        /\ zip.entries[n].file = file

\* C30: in an archive an export has built, the geometry reference of every
\* object's block, assets/<object name>/<base name of the main file>, is
\* the path of a payload file of that archive.
C30_ReferenceWritten ==
    (io = "exporting" \/ (io = "exported" /\ exportResult.success)) =>
        \A n \in 2..Len(BuiltArchive.sceneUsda.blocks) :
            LET ref == BuiltArchive.sceneUsda.blocks[n].references
            IN  WrittenAt(BuiltArchive, ref.asset, ref.file)

====
